---- MODULE Spec2Model ----
(***************************************************************************)
(* Grid-based spatial aggregation of quentinldrm/Model_pop.                *)
(*                                                                         *)
(* Geometry is modelled exactly on rectilinear shapes with integer         *)
(* coordinates (metres, EPSG:2154): a polygon is a rectangle               *)
(* [x0, y0, x1, y1], a (multi)polygon a set of rectangles.  On such        *)
(* shapes the shapely predicates and measures used by the code             *)
(* (intersects, within, intersection().area, centroid, total_bounds) have  *)
(* closed integer forms, which are the operators below.                    *)
(***************************************************************************)
EXTENDS Integers, Sequences, FiniteSets, TLC

VARIABLES pc, variant, cell_size, secteurs, bounds, grid,
          bati, intersected, surf, sirene, recens, features, merged, voirie, log,
          poi, env, pool

vars == <<pc, variant, cell_size, secteurs, bounds, grid,
          bati, intersected, surf, sirene, recens, features, merged, voirie, log,
          poi, env, pool>>

(* The layers and tables no tessellation or overlay step writes.           *)
layers == <<sirene, recens, features, merged, voirie, log, poi, env, pool>>

(***************************************************************************)
(* Bounds of the explored input families.                                  *)
(***************************************************************************)
MaxCoord == 3
MaxCell == 2
MaxSectCoord == 2
MaxSecteurs == 2

(***************************************************************************)
(* Program constants.                                                      *)
(***************************************************************************)
CELL_SIZE == 200
BUFFER == 2000

Min(a, b) == IF a < b THEN a ELSE b
Max(a, b) == IF a > b THEN a ELSE b

SetMin(S) == CHOOSE m \in S : \A e \in S : m <= e
SetMax(S) == CHOOSE m \in S : \A e \in S : m >= e

(***************************************************************************)
(* shapely.geometry.box(minx, miny, maxx, maxy)                            *)
(***************************************************************************)
box(minx, miny, maxx, maxy) == [x0 |-> minx, y0 |-> miny, x1 |-> maxx, y1 |-> maxy]

RectArea(r) == (r.x1 - r.x0) * (r.y1 - r.y0)

(* Area of the intersection of two rectangles (0 when they only touch).   *)
InterArea(a, b) ==
  LET w == Min(a.x1, b.x1) - Max(a.x0, b.x0)
      h == Min(a.y1, b.y1) - Max(a.y0, b.y0)
  IN  IF w > 0 /\ h > 0 THEN w * h ELSE 0

(* Variant of RectIntersects that requires an overlap of positive area.    *)
RectIntersects_interior(a, b) ==
  /\ a.x0 < b.x1 /\ b.x0 < a.x1
  /\ a.y0 < b.y1 /\ b.y0 < a.y1

(* shapely intersects on closed rectangles: a shared edge or corner counts *)
RectIntersects(a, b) ==
  /\ a.x0 <= b.x1 /\ b.x0 <= a.x1
  /\ a.y0 <= b.y1 /\ b.y0 <= a.y1

(* GeoSeries.intersects(geom): geom is a set of rectangles (its union).    *)
Intersects(cell, geom) == \E r \in geom : RectIntersects(cell, r)

(* GeoSeries.total_bounds of a sequence of geometries.                     *)
total_bounds(geoms) ==
  LET rs == UNION {geoms[i] : i \in 1..Len(geoms)}
  IN  [xmin |-> SetMin({r.x0 : r \in rs}), ymin |-> SetMin({r.y0 : r \in rs}),
       xmax |-> SetMax({r.x1 : r \in rs}), ymax |-> SetMax({r.y1 : r \in rs})]

(* secteurs.buffer(2000).total_bounds: a buffer pushes every extreme       *)
(* coordinate outwards by the buffer distance.                             *)
buffer_total_bounds(geoms, d) ==
  LET b == total_bounds(geoms)
  IN  [xmin |-> b.xmin - d, ymin |-> b.ymin - d,
       xmax |-> b.xmax + d, ymax |-> b.ymax + d]

(* secteurs.geometry.simplify(tolerance=5): Douglas-Peucker keeps every    *)
(* vertex further than the tolerance from the simplified line; the corners *)
(* of a rectangle with sides longer than 5 m all are, so rectangles of the *)
(* sector family (sides of 100 m and more) are returned unchanged.         *)
simplify(geom) == {box(r.x0, r.y0, r.x1, r.y1) : r \in geom}

(* Variant of arange that stops one step early.                            *)
RECURSIVE arange_short(_, _, _)
arange_short(start, stop, step) ==
  IF start + step < stop
    THEN <<start>> \o arange_short(start + step, stop, step) ELSE <<>>

(* Variant of arange that includes the stop value.                         *)
RECURSIVE arange_inclusive(_, _, _)
arange_inclusive(start, stop, step) ==
  IF start <= stop
    THEN <<start>> \o arange_inclusive(start + step, stop, step) ELSE <<>>

(* numpy.arange(start, stop, step) for step > 0                            *)
RECURSIVE arange(_, _, _)
arange(start, stop, step) ==
  IF start < stop THEN <<start>> \o arange(start + step, stop, step) ELSE <<>>

(* str(n) of a natural number: its decimal digits.                         *)
RECURSIVE ToStr(_)
ToStr(n) == IF n < 10 THEN <<n>> ELSE ToStr(n \div 10) \o <<n % 10>>

(* int(s) of a decimal digit string (pandas.read_csv type inference).      *)
RECURSIVE ParseInt(_)
ParseInt(s) ==
  IF Len(s) = 1 THEN s[1]
  ELSE 10 * ParseInt(SubSeq(s, 1, Len(s) - 1)) + s[Len(s)]

(* Variant of create_grid with y in the outer loop and x in the inner one. *)
create_grid_rowmajor(bnds, cs) ==
  LET rows == arange(bnds.ymin, bnds.ymax, cs)
      cols == arange(bnds.xmin, bnds.xmax, cs)
      nc == Len(cols)
  IN  [k \in 1..(Len(rows) * nc) |->
         LET x == cols[((k - 1) % nc) + 1]
             y == rows[((k - 1) \div nc) + 1]
         IN  [index |-> k - 1, geom |-> box(x, y, x + cs, y + cs)]]

(***************************************************************************)
(* create_grid(bounds, cell_size): the list comprehension iterates x in    *)
(* cols in the outer loop and y in rows in the inner loop; the frame gets  *)
(* a RangeIndex 0..n-1 in that order.                                      *)
(***************************************************************************)
create_grid(bnds, cs) ==
  LET rows == arange(bnds.ymin, bnds.ymax, cs)
      cols == arange(bnds.xmin, bnds.xmax, cs)
      nr == Len(rows)
  IN  [k \in 1..(Len(cols) * nr) |->
         LET x == cols[((k - 1) \div nr) + 1]
             y == rows[((k - 1) % nr) + 1]
         IN  [index |-> k - 1, geom |-> box(x, y, x + cs, y + cs)]]

(* grid[grid.intersects(dep.geometry.squeeze())]: boolean mask, the index  *)
(* of the kept rows is preserved.                                          *)
FilterIntersects(g, dep) == SelectSeq(g, LAMBDA row : Intersects(row.geom, dep))

(* grid.sjoin(secteurs, predicate="intersects") (inner): one output row    *)
(* per (cell, sector) pair that intersects, carrying the cell's index.     *)
SjoinIntersects(g, sect) ==
  LET m == Len(sect)
      pairs == [n \in 1..(Len(g) * m) |->
                  LET row == g[((n - 1) \div m) + 1]
                      j == ((n - 1) % m) + 1
                  IN  [index |-> row.index, geom |-> row.geom,
                       index_right |-> j - 1]]
  IN  SelectSeq(pairs, LAMBDA p : Intersects(p.geom, sect[p.index_right + 1]))

(* grid["idINSPIRE"] = grid.index.astype(str): every row gets the decimal  *)
(* string of its own index label.                                          *)
WithId(g) ==
  [k \in 1..Len(g) |->
     [f \in (DOMAIN g[k]) \cup {"idINSPIRE"} |->
        IF f = "idINSPIRE" THEN ToStr(g[k].index) ELSE g[k][f]]]

(* The grid file written by a tessellator for the given inputs: the body   *)
(* of main, statement by statement.                                        *)
Tessellate(v, cs, sect) ==
  LET b == IF v = "appli" THEN total_bounds(sect)
           ELSE buffer_total_bounds(sect, BUFFER)
      g == create_grid(b, cs)
      kept == IF v = "appli" THEN FilterIntersects(g, sect[1])
              ELSE SjoinIntersects(g, [j \in 1..Len(sect) |-> simplify(sect[j])])
  IN  WithId(kept)

(***************************************************************************)
(* Input families.                                                         *)
(***************************************************************************)
Coords == 0..MaxCoord
Rects(C) == {box(a, b, c, d) : a \in C, b \in C, c \in C, d \in C}
RectsOf(C) == {r \in Rects(C) : r.x0 < r.x1 /\ r.y0 < r.y1}

(* A department outline: one rectangle, or two with disjoint interiors     *)
(* (an L shape, two parts meeting at a corner, or two separate parts).     *)
Deps ==
  {{r} : r \in RectsOf(Coords)} \cup
  UNION {{{r, s} : s \in {t \in RectsOf(Coords) : InterArea(r, t) = 0}} :
           r \in RectsOf(Coords)}

SectCoords == {100 * i : i \in 0..MaxSectCoord}

(* Sector rows: 100 m high rectangles on the 100 m lattice along the x     *)
(* axis, which may overlap, be adjacent, or lie apart.                     *)
SecteurRects == {r \in RectsOf(SectCoords \cup {0, 100}) : r.y0 = 0 /\ r.y1 = 100}

SecteurSeqs ==
  UNION {[1..n -> {{r} : r \in SecteurRects}] : n \in 1..MaxSecteurs}

(* The scenario of the specification: a 1000 x 1000 square at the origin.  *)
ScenarioDep == {box(0, 0, 1000, 1000)}

NoBounds == [xmin |-> 0, ymin |-> 0, xmax |-> 0, ymax |-> 0]

(* The environment of a run in which every input file is present and well  *)
(* formed and the output directories exist.                                *)
AllPresent ==
  [sirene |-> "ok", bati |-> "ok", recens |-> "ok", poi |-> "ok", out_dir |-> TRUE]

(* No process pool has been created.                                       *)
NoPool == <<>>

(* No establishment layer, census table, feature file, merged table, road  *)
(* layer, point of interest or printed status.                             *)
NoLayers ==
  /\ sirene = <<>> /\ recens = <<>> /\ features = <<>> /\ merged = <<>>
  /\ voirie = <<>> /\ log = <<>> /\ poi = <<>> /\ env = AllPresent /\ pool = NoPool

(***************************************************************************)
(* The tessellators: preprocess_create_grid.main (appli) and               *)
(* create_grid_secteurs.main (modele), one action per statement.           *)
(***************************************************************************)
InitGrid ==
  /\ pc = "start"
  /\ \/ /\ variant = "appli"
        /\ \/ cell_size \in 1..MaxCell /\ secteurs \in {<<d>> : d \in Deps}
           \/ cell_size = 200 /\ secteurs = <<ScenarioDep>>
     \/ /\ variant = "modele"
        /\ cell_size = CELL_SIZE
        /\ secteurs \in SecteurSeqs
  /\ bounds = NoBounds
  /\ grid = <<>>
  /\ bati = <<>>
  /\ intersected = <<>>
  /\ surf = <<>>
  /\ NoLayers

(* bounds = dep.total_bounds *)
TotalBoundsAppli ==
  /\ pc = "start" /\ variant = "appli"
  /\ bounds' = total_bounds(secteurs)
  /\ pc' = "bounds"
  /\ UNCHANGED <<variant, cell_size, secteurs, grid, bati, intersected, surf, layers>>

(* bounds = secteurs.buffer(2000).total_bounds *)
TotalBoundsModele ==
  /\ pc = "start" /\ variant = "modele"
  /\ bounds' = buffer_total_bounds(secteurs, BUFFER)
  /\ pc' = "bounds"
  /\ UNCHANGED <<variant, cell_size, secteurs, grid, bati, intersected, surf, layers>>

(* grid = create_grid(bounds, cell_size) *)
CreateGrid ==
  /\ pc = "bounds"
  /\ grid' = create_grid(bounds, cell_size)
  /\ pc' = "created"
  /\ UNCHANGED <<variant, cell_size, secteurs, bounds, bati, intersected, surf, layers>>

(* grid = grid[grid.intersects(dep.geometry.squeeze())] *)
FilterGridAppli ==
  /\ pc = "created" /\ variant = "appli"
  /\ grid' = FilterIntersects(grid, secteurs[1])
  /\ pc' = "filtered"
  /\ UNCHANGED <<variant, cell_size, secteurs, bounds, bati, intersected, surf, layers>>

(* secteurs["geometry"] = simplify(5); grid = grid.sjoin(secteurs, ...)    *)
SjoinGridModele ==
  /\ pc = "created" /\ variant = "modele"
  /\ secteurs' = [j \in 1..Len(secteurs) |-> simplify(secteurs[j])]
  /\ grid' = SjoinIntersects(grid, secteurs')
  /\ pc' = "filtered"
  /\ UNCHANGED <<variant, cell_size, bounds, bati, intersected, surf, layers>>

(* grid["idINSPIRE"] = grid.index.astype(str) *)
AssignId ==
  /\ pc = "filtered"
  /\ grid' = WithId(grid)
  /\ pc' = "done"
  /\ UNCHANGED <<variant, cell_size, secteurs, bounds, bati, intersected, surf, layers>>

NextGrid ==
  \/ TotalBoundsAppli
  \/ TotalBoundsModele
  \/ CreateGrid
  \/ FilterGridAppli
  \/ SjoinGridModele
  \/ AssignId

SpecGrid == InitGrid /\ [][NextGrid]_vars

(***************************************************************************)
(* Properties of the tessellators.                                         *)
(***************************************************************************)
Tiling == create_grid(bounds, cell_size)

(* The region boundary: every rectangle of every sector (appli: of dep).   *)
Region == UNION {secteurs[j] : j \in 1..Len(secteurs)}

RetainedCells == {grid[i].geom : i \in 1..Len(grid)}
RetainedIndex == {grid[i].index : i \in 1..Len(grid)}

PositiveOverlap(cell, geom) == \E r \in geom : InterArea(cell, r) > 0

(* The closed cell and the closed region have a common point: the          *)
(* rectangle of common points, possibly reduced to a segment or a point,   *)
(* is not empty.                                                           *)
SharesPoint(cell, geom) ==
  \E r \in geom :
    /\ Max(cell.x0, r.x0) <= Min(cell.x1, r.x1)
    /\ Max(cell.y0, r.y0) <= Min(cell.y1, r.y1)

CeilDiv(a, b) == (a + b - 1) \div b

RECURSIVE SumArea(_)
SumArea(S) ==
  IF S = {} THEN 0
  ELSE LET r == CHOOSE e \in S : TRUE IN RectArea(r) + SumArea(S \ {r})

BoundsWidth == bounds.xmax - bounds.xmin
BoundsHeight == bounds.ymax - bounds.ymin

(* C3: in every grid produced by a tessellator no two rows carry the same *)
(* idINSPIRE and no two retained cells overlap with positive area.         *)
C3_UniqueIdNoOverlap ==
  pc = "done" =>
    \A i, j \in 1..Len(grid) :
      i # j => /\ grid[i].idINSPIRE # grid[j].idINSPIRE
               /\ InterArea(grid[i].geom, grid[j].geom) = 0

(* C4 as stated: a cell of the tiling is retained if and only if its       *)
(* intersection with the region boundary has strictly positive area.       *)
C4_RetainedIffPositiveArea ==
  pc = "done" =>
    LET t == Tiling
        kept == RetainedIndex
    IN  \A k \in 1..Len(t) :
          (t[k].index \in kept) <=> PositiveOverlap(t[k].geom, Region)

(* C4 amended: a cell of the tiling is retained if and only if it shares   *)
(* at least one point with the region boundary; a cell that only touches   *)
(* the boundary along an edge or at a corner is retained.                  *)
C4_RetainedIffSharesPoint ==
  pc = "done" =>
    LET t == Tiling
        kept == RetainedIndex
    IN  \A k \in 1..Len(t) :
          (t[k].index \in kept) <=> SharesPoint(t[k].geom, Region)

C4_Witness ==
  /\ pc = "done"
  /\ \E i \in 1..Len(grid) : ~PositiveOverlap(grid[i].geom, Region)
  /\ Cardinality(RetainedIndex) < Len(Tiling)

IsScenario == variant = "appli" /\ cell_size = 200 /\ secteurs = <<ScenarioDep>>

RowMajorRank(cell) ==
  ((cell.y0 - bounds.ymin) \div cell_size) * CeilDiv(BoundsWidth, cell_size)
    + ((cell.x0 - bounds.xmin) \div cell_size)

ColMajorRank(cell) ==
  ((cell.x0 - bounds.xmin) \div cell_size) * CeilDiv(BoundsHeight, cell_size)
    + ((cell.y0 - bounds.ymin) \div cell_size)

ScenarioShape ==
  IsScenario =>
    /\ Len(grid) = 25
    /\ \A i \in 1..25 : /\ grid[i].geom.x1 - grid[i].geom.x0 = 200
                        /\ grid[i].geom.y1 - grid[i].geom.y0 = 200
    /\ {grid[i].idINSPIRE : i \in 1..25} = {ToStr(n) : n \in 0..24}

(* C5 as stated: the scenario yields 25 cells of 200 x 200 with            *)
(* identifiers 0..24, and the identifier of a cell is its row-major rank   *)
(* in the tiling (a whole row in increasing x before the next row).        *)
C5_RowMajorIds ==
  pc = "done" =>
    /\ ScenarioShape
    /\ \A i \in 1..Len(grid) : ParseInt(grid[i].idINSPIRE) = RowMajorRank(grid[i].geom)

(* C5 amended: the scenario yields 25 cells of 200 x 200 with identifiers  *)
(* "0".."24", and the identifier of a cell is the decimal string of its    *)
(* column-major rank in the unfiltered tiling (a whole column in           *)
(* increasing y before the next column).                                   *)
C5_ColMajorIds ==
  pc = "done" =>
    /\ ScenarioShape
    /\ \A i \in 1..Len(grid) : grid[i].idINSPIRE = ToStr(ColMajorRank(grid[i].geom))

C5_Witness == pc = "done" /\ IsScenario /\ Len(grid) = 25

(* Coordinates at which a cell edge or the rectangle's own edge cuts r.    *)
CutsX(r) == {r.x0, r.x1} \cup
  {v \in {c.x0 : c \in RetainedCells} \cup {c.x1 : c \in RetainedCells} :
     r.x0 < v /\ v < r.x1}
CutsY(r) == {r.y0, r.y1} \cup
  {v \in {c.y0 : c \in RetainedCells} \cup {c.y1 : c \in RetainedCells} :
     r.y0 < v /\ v < r.y1}

Consecutive(S) == {p \in S \X S : p[1] < p[2] /\ ~\E v \in S : p[1] < v /\ v < p[2]}

(* Every elementary box of r (no cell edge passes through it) lies in a    *)
(* retained cell, hence so does every point of r.                          *)
Covered(r) ==
  \A px \in Consecutive(CutsX(r)), py \in Consecutive(CutsY(r)) :
    \E c \in RetainedCells :
      /\ c.x0 <= px[1] /\ px[2] <= c.x1
      /\ c.y0 <= py[1] /\ py[2] <= c.y1

(* C6: every point of the boundary polygon lies in at least one retained   *)
(* cell.                                                                   *)
C6_BoundaryCovered == pc = "done" => \A r \in Region : Covered(r)

C6_Witness ==
  /\ pc = "done"
  /\ Len(grid) < Len(Tiling)
  /\ Cardinality(Region) = 2

(* C7 as stated: the total area of the retained cells is at most the area  *)
(* of the bounding box, also when its width or height is not a multiple of *)
(* the cell size.                                                          *)
C7_AreaWithinBounds ==
  pc = "done" => SumArea(RetainedCells) <= BoundsWidth * BoundsHeight

(* C7 amended: the total area of the distinct retained cells is at most    *)
(* ceil(W/c) * ceil(H/c) * c^2, W x H being the bounding box and c the     *)
(* cell size; this is the bounding box's area when W and H are integer     *)
(* multiples of c, and may exceed it otherwise.                            *)
C7_AreaWithinRoundedBounds ==
  pc = "done" =>
    /\ SumArea(RetainedCells) <=
         CeilDiv(BoundsWidth, cell_size) * CeilDiv(BoundsHeight, cell_size)
           * cell_size * cell_size
    /\ (BoundsWidth % cell_size = 0 /\ BoundsHeight % cell_size = 0)
         => SumArea(RetainedCells) <= BoundsWidth * BoundsHeight

C7_Witness ==
  /\ pc = "done"
  /\ BoundsWidth % cell_size # 0
  /\ SumArea(RetainedCells) > BoundsWidth * BoundsHeight

(***************************************************************************)
(* Built surface per cell: preprocess_area_bati.compute_surface_batie      *)
(* (appli) and area_bati_secteurs.calculate_surface_batie_optimisee        *)
(* (modele).                                                               *)
(***************************************************************************)
MaxBatiCoord == 2
MaxBati == 2

(* A building record: a footprint rectangle, or a null geometry.           *)
NullGeom == [null |-> TRUE]
IsNull(geom) == "null" \in DOMAIN geom

(* GeoSeries.area: NaN for a null geometry, which fails every comparison.  *)
AreaGt(geom, t) == ~IsNull(geom) /\ RectArea(geom) > t

(* Lexicographic order of digit strings (pandas sorts group keys).         *)
LexLess(s, t) ==
  \E k \in 1..(Min(Len(s), Len(t)) + 1) :
    /\ \A i \in 1..(k - 1) : s[i] = t[i]
    /\ \/ k > Len(s) /\ k <= Len(t)
       \/ k <= Len(s) /\ k <= Len(t) /\ s[k] < t[k]

RECURSIVE SortKeys(_)
SortKeys(S) ==
  IF S = {} THEN <<>>
  ELSE LET m == CHOOSE e \in S : \A o \in S \ {e} : LexLess(e, o)
       IN  <<m>> \o SortKeys(S \ {m})

RECURSIVE SumField(_, _, _)
SumField(rows, f, k) ==
  IF k > Len(rows) THEN 0 ELSE rows[k][f] + SumField(rows, f, k + 1)

(* rows.groupby("idINSPIRE")[f].sum().reset_index(), column renamed to out *)
GroupBySum(rows, f, out) ==
  LET keys == SortKeys({rows[k].idINSPIRE : k \in 1..Len(rows)})
  IN  [n \in 1..Len(keys) |->
         LET grp == SelectSeq(rows, LAMBDA r : r.idINSPIRE = keys[n])
         IN  (out :> SumField(grp, f, 1)) @@ [idINSPIRE |-> keys[n]]]

(* gpd.overlay(grid, bati, how="intersection"): one row per (cell row,     *)
(* building) pair whose intersection is a polygon, i.e. has positive area  *)
(* (keep_geom_type drops shared edges and corners), then                   *)
(* intersected["surf_partielle"] = intersected.geometry.area.              *)
overlay_intersection(g, b) ==
  LET m == Len(b)
      pairs == [n \in 1..(Len(g) * m) |->
                  LET row == g[((n - 1) \div m) + 1]
                      j == ((n - 1) % m) + 1
                  IN  [idINSPIRE |-> row.idINSPIRE, bat |-> j,
                       surf_partielle |->
                         IF IsNull(b[j].geom) THEN 0
                         ELSE InterArea(row.geom, b[j].geom)]]
  IN  SelectSeq(pairs, LAMBDA p : p.surf_partielle > 0)

(* bati = bati[bati.geometry.area > 1], keeping each building's label.     *)
KeepLargeBati(b) ==
  [j \in 1..Len(b) |-> IF AreaGt(b[j].geom, 1) THEN b[j] ELSE [geom |-> NullGeom]]

(* grid.drop_duplicates("idINSPIRE").set_index("idINSPIRE").geometry:      *)
(* the geometry of the first row that carries the identifier.              *)
grid_geom(g, id) ==
  g[CHOOSE k \in 1..Len(g) :
      g[k].idINSPIRE = id /\ \A i \in 1..(k - 1) : g[i].idINSPIRE # id].geom

(* gpd.sjoin(bati, grid, predicate="intersects", how="inner"), then the    *)
(* area of building.intersection(grid_geom[idINSPIRE]) on every joined     *)
(* row: one row per (building, grid row) pair that intersects.             *)
sjoin_bati_grid(b, g) ==
  LET m == Len(g)
      pairs == [n \in 1..(Len(b) * m) |->
                  [bat |-> ((n - 1) \div m) + 1, row |-> ((n - 1) % m) + 1]]
      hits == SelectSeq(pairs, LAMBDA p :
                /\ ~IsNull(b[p.bat].geom)
                /\ RectIntersects(b[p.bat].geom, g[p.row].geom))
  IN  [n \in 1..Len(hits) |->
         [bat |-> hits[n].bat, idINSPIRE |-> g[hits[n].row].idINSPIRE,
          surf_inters |->
            InterArea(b[hits[n].bat].geom, grid_geom(g, g[hits[n].row].idINSPIRE))]]

(* Input families of the overlay.                                          *)
OverlayDeps == {{box(0, 0, w, h)} : w \in 1..MaxCoord, h \in 1..MaxCoord}

(* One sector, or several adjacent or identical ones inside one cell.      *)
OverlaySecteurs ==
  UNION {[1..n -> {{box(0, 0, 100, 100)}, {box(100, 0, 200, 100)}}] :
           n \in 1..MaxSecteurs}

(* Building records: footprints of height h along the x axis with corners *)
(* in C, and a record without geometry.                                    *)
BatiRecords(C, h) ==
  {[geom |-> r] : r \in {t \in RectsOf(C \cup {0, h}) : t.y0 = 0 /\ t.y1 = h}
                         \cup {NullGeom}}
BatiSeqs(C, h) == UNION {[1..n -> BatiRecords(C, h)] : n \in 1..MaxBati}

(* A building of area 300 split 120 / 180 between two adjacent 20 m cells. *)
ScenarioBati == [geom |-> box(14, 0, 29, 20)]

InitOverlay ==
  /\ pc = "ready"
  /\ NoLayers
  /\ bounds = NoBounds
  /\ intersected = <<>>
  /\ surf = <<>>
  /\ \/ /\ variant = "appli"
        /\ cell_size \in 1..MaxCell
        /\ secteurs \in {<<d>> : d \in OverlayDeps}
        /\ grid = Tessellate(variant, cell_size, secteurs)
        /\ bati \in BatiSeqs(0..MaxBatiCoord, 1)
     \/ /\ variant = "modele"
        /\ cell_size = CELL_SIZE
        /\ secteurs \in OverlaySecteurs
        /\ grid = Tessellate(variant, cell_size, secteurs)
        /\ bati \in BatiSeqs({150 * i : i \in 0..MaxBatiCoord}, 150)
     \/ /\ variant = "appli"
        /\ cell_size = 20
        /\ secteurs = <<{box(0, 0, 40, 20)}>>
        /\ grid = Tessellate(variant, cell_size, secteurs)
        /\ bati = <<ScenarioBati>>

(* The table compute_surface_batie() writes to surf_batie_<maillage>m.csv. *)
surf_batie_csv(g, b) ==
  GroupBySum(overlay_intersection(g, KeepLargeBati(b)), "surf_partielle", "surf_batie")

(* compute_surface_batie() *)
ComputeSurfaceBatie ==
  /\ pc = "ready" /\ variant = "appli"
  /\ intersected' = overlay_intersection(grid, KeepLargeBati(bati))
  /\ surf' = surf_batie_csv(grid, bati)
  /\ pc' = "surf_done"
  /\ UNCHANGED <<variant, cell_size, secteurs, bounds, grid, bati, layers>>

(* calculate_surface_batie_optimisee() *)
CalculateSurfaceBatieOptimisee ==
  /\ pc = "ready" /\ variant = "modele"
  /\ intersected' = sjoin_bati_grid(bati, grid)
  /\ surf' = GroupBySum(intersected', "surf_inters", "surf_batie")
  /\ pc' = "surf_done"
  /\ UNCHANGED <<variant, cell_size, secteurs, bounds, grid, bati, layers>>

NextOverlay == ComputeSurfaceBatie \/ CalculateSurfaceBatieOptimisee

SpecOverlay == InitOverlay /\ [][NextOverlay]_vars

(* Total intersection area attributed to building j over all rows.         *)
Attributed(j) ==
  LET mine == SelectSeq(intersected, LAMBDA r : r.bat = j)
  IN  SumField(mine, IF variant = "appli" THEN "surf_partielle" ELSE "surf_inters", 1)

(* C1: for every building record, the sum over all cell identifiers of the *)
(* intersection area attributed to that building is at most the building's *)
(* own area, for every grid the tessellators can produce.                  *)
C1_AttributedWithinArea ==
  pc = "surf_done" =>
    \A j \in 1..Len(bati) :
      ~IsNull(bati[j].geom) => Attributed(j) <= RectArea(bati[j].geom)

(***************************************************************************)
(* Per-cell reducers of appli: feature_dens_eta, feature_dens_com,         *)
(* feature_pop_act, feature_jeune.                                         *)
(*                                                                         *)
(* A table is a sequence of rows; a row is a function from column names to *)
(* values, and a NaN cell is a column absent from the row's domain.        *)
(* Quotients are exact fractions in lowest terms.                          *)
(***************************************************************************)
MaxSirene == 2
MaxInd == 2

SURF_MIN == 10

RECURSIVE GCD(_, _)
GCD(a, b) == IF b = 0 THEN a ELSE GCD(b, a % b)

(* a / b for b > 0 *)
Ratio(a, b) == LET g == GCD(a, b) IN [num |-> a \div g, den |-> b \div g]

Zero == [num |-> 0, den |-> 1]

(* str[:2] of a string given as its sequence of characters                 *)
Prefix2(str) == SubSeq(str, 1, Min(2, Len(str)))

(* shapely polygon.contains(point): the point lies in the interior.        *)
Contains(cell, pt) ==
  /\ cell.x0 < pt.x /\ pt.x < cell.x1
  /\ cell.y0 < pt.y /\ pt.y < cell.y1

(* pandas.read_csv followed by astype(str) on the identifier column.       *)
ReadIdAsStr(t) == [k \in 1..Len(t) |-> [t[k] EXCEPT !.idINSPIRE = ToStr(ParseInt(@))]]

(* gpd.sjoin(grid, pts, how="left", predicate="contains") followed by      *)
(* groupby("idINSPIRE").size(): the number of joined rows per identifier;  *)
(* a grid row that contains no point still yields one joined row.          *)
LeftJoinRows(row, pts) ==
  LET hits == Cardinality({j \in 1..Len(pts) : Contains(row.geom, pts[j].geom)})
  IN  IF hits = 0 THEN 1 ELSE hits

CountBySize(g, pts, out) ==
  LET joined == [k \in 1..Len(g) |->
                   [idINSPIRE |-> g[k].idINSPIRE, n |-> LeftJoinRows(g[k], pts)]]
  IN  GroupBySum(joined, "n", out)

(* Rows of t whose identifier is id.                                       *)
Matching(t, id) == SelectSeq(t, LAMBDA r : r.idINSPIRE = id)

(* left.merge(right, on="idINSPIRE", how="left"): every left row paired    *)
(* with every matching right row, or kept alone (right columns NaN).       *)
RECURSIVE LeftMerge(_, _, _)
LeftMerge(left, right, k) ==
  IF k > Len(left) THEN <<>>
  ELSE LET m == Matching(right, left[k].idINSPIRE)
       IN  (IF Len(m) = 0 THEN <<left[k]>>
            ELSE [i \in 1..Len(m) |-> m[i] @@ left[k]])
           \o LeftMerge(left, right, k + 1)

(* df.fillna(0) on a frame with the given columns.                         *)
Fillna0(t, cols) ==
  [k \in 1..Len(t) |-> [c \in cols |-> IF c \in DOMAIN t[k] THEN t[k][c] ELSE 0]]

(* grid[["idINSPIRE"]].merge(count, how="left").merge(surf, how="left")    *)
(* .fillna(0)                                                              *)
DensityFrame(g, count, srf, nb) ==
  LET ids == [k \in 1..Len(g) |-> [idINSPIRE |-> g[k].idINSPIRE]]
  IN  Fillna0(LeftMerge(LeftMerge(ids, count, 1), srf, 1),
              {"idINSPIRE", nb, "surf_batie"})

(* df = df[df["surf_batie"] > 10]; df[out] = df[nb] / df["surf_batie"];    *)
(* df[["idINSPIRE", out]]                                                  *)
DensityColumn(frame, nb, out) ==
  LET kept == SelectSeq(frame, LAMBDA r : r.surf_batie > SURF_MIN)
  IN  [k \in 1..Len(kept) |->
         (out :> Ratio(kept[k][nb], kept[k].surf_batie))
           @@ [idINSPIRE |-> kept[k].idINSPIRE]]

(* compute_densite_etablissements(): the written column.                   *)
densite_etablissements(g, srf, sir) ==
  DensityColumn(
    DensityFrame(g, CountBySize(g, sir, "nb_etabs_sirene"), ReadIdAsStr(srf),
                 "nb_etabs_sirene"),
    "nb_etabs_sirene", "densite_etablissements")

(* commerces = sirene[sirene["naf2"] == "47"]                              *)
Commerces(sir) == SelectSeq(sir, LAMBDA e : Prefix2(e.naf) = <<"4", "7">>)

(* compute_densite_commerces(): the written column.                        *)
densite_commerces(g, srf, sir) ==
  DensityColumn(
    DensityFrame(g, CountBySize(g, Commerces(sir), "nb_commerces"), ReadIdAsStr(srf),
                 "nb_commerces"),
    "nb_commerces", "densite_commerces")

(* The aggregated census file does not exist.                              *)
NoFile == <<>>

(* Census share: an empty frame when the census file is missing, else      *)
(* df.apply(lambda row: pop / row["ind"] if row["ind"] > 0 else 0), on the *)
(* table read from recens_agrege (numeric columns through                  *)
(* to_numeric(...).fillna(0)), written back with its identifier.           *)
ShareColumn(rec, cols, ages, out) ==
  LET df == Fillna0(rec, cols)
  IN  IF rec = NoFile THEN <<>> ELSE
      [k \in 1..Len(df) |->
         LET pop == SumField([i \in 1..Len(ages) |-> [v |-> df[k][ages[i]]]], "v", 1)
         IN  (out :> IF df[k].ind > 0 THEN Ratio(pop, df[k].ind) ELSE Zero)
               @@ [idINSPIRE |-> ToStr(ParseInt(df[k].idINSPIRE))]]

JeunesAges == <<"ind_0_3", "ind_4_5", "ind_6_10", "ind_11_17", "ind_18_24">>
ActiveAges == <<"ind_18_24", "ind_25_39", "ind_40_54", "ind_55_64">>

Range(seq) == {seq[i] : i \in 1..Len(seq)}

(* compute_part_jeunes() *)
part_jeunes(rec) ==
  ShareColumn(rec, {"idINSPIRE", "ind"} \cup Range(JeunesAges), JeunesAges, "part_jeunes")

(* compute_part_population_active() *)
part_population_active(rec) ==
  ShareColumn(rec, {"idINSPIRE", "ind"} \cup Range(ActiveAges), ActiveAges,
              "part_population_active")

(***************************************************************************)
(* Input families of the reducers: a grid of two 5 m cells, buildings of   *)
(* 5, 10 and 15 m2 and one straddling both cells, establishments inside a  *)
(* cell or on the shared edge, census rows with ind from 0 upwards.        *)
(***************************************************************************)
FeatDep == {box(0, 0, 10, 5)}

FeatBati ==
  {[geom |-> box(0, 0, 1, 5)], [geom |-> box(0, 0, 2, 5)],
   [geom |-> box(2, 0, 5, 5)], [geom |-> box(4, 0, 7, 5)]}

NafCodes == {<<"4", "7", ".", "1", "1", "B">>, <<"7", "4", ".", "1", "0", "Z">>}

SirenePoints == {[x |-> 1, y |-> 1], [x |-> 6, y |-> 1], [x |-> 5, y |-> 1]}

SireneRecords == {[geom |-> p, naf |-> c] : p \in SirenePoints, c \in NafCodes}

SeqsUpTo(S, n) == UNION {[1..m -> S] : m \in 0..n}

AgeColumns == Range(JeunesAges) \cup Range(ActiveAges)

(* One row of recens_agrege: head counts per age class, at most ind in     *)
(* total; the classes the families leave at 0 are 0.                       *)
CensusRows ==
  {[c \in {"ind"} \cup AgeColumns |->
      CASE c = "ind" -> n
        [] c = "ind_0_3" -> a
        [] c = "ind_18_24" -> b
        [] c = "ind_25_39" -> d
        [] OTHER -> 0] :
     n \in 0..MaxInd,
     a \in 0..1, b \in 0..1, d \in 0..1} 

CensusTables(g) ==
  {[k \in 1..Len(g) |-> f[k] @@ [idINSPIRE |-> g[k].idINSPIRE]] :
     f \in [1..Len(g) -> {r \in CensusRows :
                            r.ind_0_3 + r.ind_18_24 + r.ind_25_39 <= r.ind}]}

(* The census table of a grid no census cell covers (all sums 0).          *)
EmptyCensus(g) ==
  [k \in 1..Len(g) |->
     [c \in {"ind"} \cup AgeColumns |-> 0] @@ [idINSPIRE |-> g[k].idINSPIRE]]

InitFeat ==
  /\ pc = "feat_ready"
  /\ variant = "appli"
  /\ cell_size = 5
  /\ secteurs = <<FeatDep>>
  /\ bounds = NoBounds
  /\ grid = Tessellate(variant, cell_size, secteurs)
  /\ intersected = <<>>
  /\ features = <<>>
  /\ merged = <<>>
  /\ voirie = <<>>
  /\ log = <<>>
  /\ poi = <<>>
  /\ env = AllPresent /\ pool = NoPool
  /\ \/ /\ bati \in SeqsUpTo(FeatBati, MaxBati)
        /\ sirene \in SeqsUpTo(SireneRecords, MaxSirene)
        /\ recens \in {NoFile, EmptyCensus(grid)}
     \/ /\ bati = <<>>
        /\ sirene = <<>>
        /\ recens \in CensusTables(grid)
  /\ surf = surf_batie_csv(grid, bati)

frame == <<variant, cell_size, secteurs, bounds, grid, bati, intersected, surf,
           sirene, recens, merged, voirie, log, poi, env, pool>>

(* compute_densite_etablissements() *)
ComputeDensiteEtablissements ==
  /\ pc = "feat_ready"
  /\ features' = ("densite_etablissements" :> densite_etablissements(grid, surf, sirene))
                   @@ features
  /\ pc' = "dens_eta_done"
  /\ UNCHANGED frame

(* compute_densite_commerces() *)
ComputeDensiteCommerces ==
  /\ pc = "dens_eta_done"
  /\ features' = ("densite_commerces" :> densite_commerces(grid, surf, sirene))
                   @@ features
  /\ pc' = "dens_com_done"
  /\ UNCHANGED frame

(* compute_part_population_active() and the to_csv of its result *)
ComputePartPopulationActive ==
  /\ pc = "dens_com_done"
  /\ features' = ("part_population_active" :> part_population_active(recens))
                   @@ features
  /\ pc' = "pop_act_done"
  /\ UNCHANGED frame

(* compute_part_jeunes() and the to_csv of its result *)
ComputePartJeunes ==
  /\ pc = "pop_act_done"
  /\ features' = ("part_jeunes" :> part_jeunes(recens)) @@ features
  /\ pc' = "feat_done"
  /\ UNCHANGED frame

(***************************************************************************)
(* features_fusion.fusion_features: the feature files are read back and    *)
(* merged on idINSPIRE, in the order os.listdir returns them.              *)
(***************************************************************************)
(* pd.read_csv: the identifier column is parsed as integers.               *)
read_csv(t) == [k \in 1..Len(t) |-> [t[k] EXCEPT !.idINSPIRE = ParseInt(@)]]

RECURSIVE SortInts(_)
SortInts(S) ==
  IF S = {} THEN <<>>
  ELSE LET m == CHOOSE e \in S : \A o \in S : e <= o
       IN  <<m>> \o SortInts(S \ {m})

Ids(t) == {t[k].idINSPIRE : k \in 1..Len(t)}

(* Rows of the merge for one key: every left row with every right row, or  *)
(* the rows of the only side that has the key (other columns NaN).         *)
MergeKey(left, right, id) ==
  LET l == Matching(left, id)
      r == Matching(right, id)
  IN  IF Len(r) = 0 THEN l
      ELSE IF Len(l) = 0 THEN r
      ELSE [n \in 1..(Len(l) * Len(r)) |->
              l[((n - 1) \div Len(r)) + 1] @@ r[((n - 1) % Len(r)) + 1]]

RECURSIVE MergeKeys(_, _, _, _)
MergeKeys(left, right, keys, k) ==
  IF k > Len(keys) THEN <<>>
  ELSE MergeKey(left, right, keys[k]) \o MergeKeys(left, right, keys, k + 1)

(* Variant of the merge that keeps only the keys of the left side.         *)
LeftOnlyMerge(left, right) == MergeKeys(left, right, SortInts(Ids(left)), 1)

(* Variant of the merge that keeps only the keys present on both sides.    *)
InnerMerge(left, right) ==
  MergeKeys(left, right, SortInts(Ids(left) \cap Ids(right)), 1)

(* pd.merge(left, right, on="idINSPIRE", how="outer"): the keys of both    *)
(* sides, sorted.                                                          *)
OuterMerge(left, right) ==
  MergeKeys(left, right, SortInts(Ids(left) \cup Ids(right)), 1)

(* The loop of fusion_features over all_files.                             *)
RECURSIVE MergeFiles(_, _, _)
MergeFiles(files, order, k) ==
  IF k = 1 THEN read_csv(files[order[1]])
  ELSE OuterMerge(MergeFiles(files, order, k - 1), read_csv(files[order[k]]))

(* The orders in which os.listdir may return the files.                    *)
Listings(names) ==
  {o \in [1..Cardinality(names) -> names] : \A i, j \in DOMAIN o : i # j => o[i] # o[j]}

(* print_status(step, status, detail): the printed line, its step held as  *)
(* the sequence of the parts of the message.                               *)
print_status(step, status) == [step |-> step, status |-> status]

(* fusion_features(): the merged table is exported, or, when the directory *)
(* holds no feature file, only a warning is printed.                       *)
FusionFeatures ==
  /\ pc = "feat_done"
  /\ IF DOMAIN features = {}
       THEN /\ merged' = merged
            /\ log' = Append(log, print_status(<<"No files to merge">>, "warning"))
       ELSE /\ \E all_files \in Listings(DOMAIN features) :
                 merged' = MergeFiles(features, all_files, Len(all_files))
            /\ log' = Append(log, print_status(<<"Merged file exported">>, "ok"))
  /\ pc' = "fused"
  /\ UNCHANGED <<variant, cell_size, secteurs, bounds, grid, bati, intersected, surf,
                 sirene, recens, features, voirie, poi, env, pool>>

NextFeat ==
  \/ ComputeDensiteEtablissements
  \/ ComputeDensiteCommerces
  \/ ComputePartPopulationActive
  \/ ComputePartJeunes
  \/ FusionFeatures

SpecFeat == InitFeat /\ [][NextFeat]_vars

(***************************************************************************)
(* Properties of the reducers.                                             *)
(***************************************************************************)
(* The value a feature column holds for a cell is undefined: the column    *)
(* has no row for the identifier, or the row's value is NaN.               *)
Undefined(col, f, id) ==
  \A k \in 1..Len(col) : col[k].idINSPIRE = id => f \notin DOMAIN col[k]

(* The column holds the value v for the cell.                              *)
HasValue(col, f, id, v) ==
  \E k \in 1..Len(col) : col[k].idINSPIRE = id /\ f \in DOMAIN col[k] /\ col[k][f] = v

(* Built-surface basis of a cell: its entry in the built-surface table.    *)
InSurf(id) == \E k \in 1..Len(surf) : surf[k].idINSPIRE = id
Basis(id) == IF InSurf(id) THEN Matching(surf, id)[1].surf_batie ELSE 0

(* Number of layer records contained in a cell.                            *)
RecordCount(cell, pts) ==
  Cardinality({j \in 1..Len(pts) : Contains(cell, pts[j].geom)})

(* C8: for both density reducers, a cell whose built-surface basis is      *)
(* below the minimum threshold (or that has no built surface) yields the   *)
(* undefined marker whatever its record count, and a cell at or above the  *)
(* threshold yields count / basis.                                         *)
C8_DensityThreshold ==
  pc = "feat_done" =>
    \A k \in 1..Len(grid) :
      LET id == grid[k].idINSPIRE
          eta == features["densite_etablissements"]
          com == features["densite_commerces"]
      IN  /\ Basis(id) < SURF_MIN =>
               /\ Undefined(eta, "densite_etablissements", id)
               /\ Undefined(com, "densite_commerces", id)
          /\ Basis(id) >= SURF_MIN =>
               /\ HasValue(eta, "densite_etablissements", id,
                           Ratio(RecordCount(grid[k].geom, sirene), Basis(id)))
               /\ HasValue(com, "densite_commerces", id,
                           Ratio(RecordCount(grid[k].geom, Commerces(sirene)), Basis(id)))

(* C9: no reducer turns a non-computable value into the number zero: a     *)
(* census row whose denominator ind is 0 yields the undefined marker for   *)
(* both shares, and a cell missing from the built-surface table is given   *)
(* neither basis 0 nor density 0.                                          *)
C9_UndefinedNeverZero ==
  pc = "feat_done" =>
    /\ \A k \in 1..Len(recens) :
         recens[k].ind = 0 =>
           /\ Undefined(features["part_jeunes"], "part_jeunes", recens[k].idINSPIRE)
           /\ Undefined(features["part_population_active"], "part_population_active",
                        recens[k].idINSPIRE)
    /\ LET df == DensityFrame(grid, CountBySize(grid, sirene, "nb_etabs_sirene"),
                              ReadIdAsStr(surf), "nb_etabs_sirene")
       IN  \A k \in 1..Len(df) :
             ~InSurf(df[k].idINSPIRE) =>
               /\ df[k].surf_batie # 0
               /\ ~HasValue(features["densite_etablissements"],
                            "densite_etablissements", df[k].idINSPIRE, Zero)

(***************************************************************************)
(* Mean pairwise distance between buildings of a cell:                     *)
(* feature_d_moy_bati (appli) and dis_moy_bati (modele).                   *)
(***************************************************************************)
MaxDistBati == 3

(* geometry.centroid of a rectangle (the families keep it on the lattice)  *)
Centroid(r) == [x |-> (r.x0 + r.x1) \div 2, y |-> (r.y0 + r.y1) \div 2]

(* shapely point.within(polygon): the point lies in the interior.          *)
Within(pt, cell) == Contains(cell, pt)

(* Square root of a perfect square.                                        *)
ISqrt(n) == CHOOSE r \in 0..n : r * r = n

(* Euclidean distance between two points, as scipy pdist computes it.      *)
Dist(p, q) == ISqrt((p.x - q.x) * (p.x - q.x) + (p.y - q.y) * (p.y - q.y))

(* pdist(coords).mean(): the mean over all index pairs i < j.              *)
pdist_mean(coords) ==
  LET n == Len(coords)
      all == [m \in 1..(n * n) |-> [i |-> ((m - 1) \div n) + 1, j |-> ((m - 1) % n) + 1]]
      pairs == SelectSeq(all, LAMBDA p : p.i < p.j)
  IN  Ratio(SumField([m \in 1..Len(pairs) |->
                        [v |-> Dist(coords[pairs[m].i], coords[pairs[m].j])]], "v", 1),
            Len(pairs))

(* compute_mean_distance((id_, df)), and the body of the loop of appli:    *)
(* the mean when the group has more than one row, NaN otherwise.           *)
compute_mean_distance(id, coords) ==
  IF Len(coords) > 1
    THEN [idINSPIRE |-> id, distance_moyenne_batiments |-> pdist_mean(coords)]
    ELSE [idINSPIRE |-> id]

(* gpd.sjoin(bati, grid, how="inner", predicate="within") on the centroid  *)
(* geometry: one row per (building, grid row) pair.                        *)
sjoin_within(b, g) ==
  LET m == Len(g)
      pairs == [n \in 1..(Len(b) * m) |->
                  [bat |-> ((n - 1) \div m) + 1, row |-> ((n - 1) % m) + 1]]
      hits == SelectSeq(pairs, LAMBDA p :
                /\ ~IsNull(b[p.bat].geom)
                /\ Within(Centroid(b[p.bat].geom), g[p.row].geom))
  IN  [n \in 1..Len(hits) |->
         [idINSPIRE |-> g[hits[n].row].idINSPIRE,
          centroid |-> Centroid(b[hits[n].bat].geom)]]

(* joined.groupby("idINSPIRE") and the per-group computation, collected    *)
(* into the result frame.                                                  *)
distance_by_group(joined) ==
  LET keys == SortKeys({joined[k].idINSPIRE : k \in 1..Len(joined)})
  IN  [n \in 1..Len(keys) |->
         LET grp == Matching(joined, keys[n])
         IN  compute_mean_distance(keys[n], [i \in 1..Len(grp) |-> grp[i].centroid])]

(* bati[bati.intersects(bbox)], bbox = box(minx, miny, maxx, maxy) of the  *)
(* grid's total_bounds, buffered by 2000: the buildings                    *)
(* within 2000 m of the grid's bounding box (others become no record).     *)
NearGrid(b, g) ==
  LET tb == total_bounds([k \in 1..Len(g) |-> {g[k].geom}])
      gapx(r) == Max(0, Max(tb.xmin - r.x1, r.x0 - tb.xmax))
      gapy(r) == Max(0, Max(tb.ymin - r.y1, r.y0 - tb.ymax))
  IN  [j \in 1..Len(b) |->
         IF /\ ~IsNull(b[j].geom)
            /\ gapx(b[j].geom) * gapx(b[j].geom) + gapy(b[j].geom) * gapy(b[j].geom)
                 <= BUFFER * BUFFER
           THEN b[j] ELSE [geom |-> NullGeom]]

(* Buildings whose centroids are at pairwise integer distances (a 3-4-5    *)
(* rectangle scaled by k), one in the next cell, one with its centroid on  *)
(* the edge shared by two cells of size 10 k, and a null geometry.         *)
SquareAt(cx, cy, h) == [geom |-> box(cx - h, cy - h, cx + h, cy + h)]

DistBati(k) ==
  {SquareAt(2 * k, 2 * k, k), SquareAt(5 * k, 6 * k, k), SquareAt(2 * k, 6 * k, k),
   SquareAt(5 * k, 2 * k, k), SquareAt(12 * k, 2 * k, k), SquareAt(10 * k, 2 * k, k),
   [geom |-> NullGeom]}

InitDist ==
  /\ pc = "dist_ready"
  /\ bounds = NoBounds
  /\ intersected = <<>>
  /\ surf = <<>>
  /\ NoLayers
  /\ \/ /\ variant = "appli"
        /\ cell_size = 10
        /\ secteurs = <<{box(0, 0, 20, 10)}>>
        /\ grid = Tessellate(variant, cell_size, secteurs)
        /\ bati \in SeqsUpTo(DistBati(1), MaxDistBati)
     \/ /\ variant = "modele"
        /\ cell_size = CELL_SIZE
        /\ secteurs \in OverlaySecteurs
        /\ grid = Tessellate(variant, cell_size, secteurs)
        /\ bati \in SeqsUpTo(DistBati(20), MaxDistBati)

(* appli compute_distance_moyenne_batiments(grid) and the to_csv of its    *)
(* result                                                                  *)
ComputeDistanceMoyenneAppli ==
  /\ pc = "dist_ready" /\ variant = "appli"
  /\ features' = ("distance_moyenne_batiments" :>
                    distance_by_group(sjoin_within(bati, grid))) @@ features
  /\ pc' = "dist_done"
  /\ UNCHANGED frame

(* modele compute_distance_moyenne_batiments(grid, bati) and the to_csv of *)
(* its result                                                              *)
ComputeDistanceMoyenneModele ==
  /\ pc = "dist_ready" /\ variant = "modele"
  /\ features' = ("distance_moyenne_batiments" :>
                    distance_by_group(sjoin_within(NearGrid(bati, grid), grid)))
                   @@ features
  /\ pc' = "dist_done"
  /\ UNCHANGED frame

NextDist == ComputeDistanceMoyenneAppli \/ ComputeDistanceMoyenneModele

SpecDist == InitDist /\ [][NextDist]_vars

(* Member records of a cell: the buildings whose centroid lies within it.  *)
Members(cell) ==
  {j \in 1..Len(bati) : ~IsNull(bati[j].geom) /\ Within(Centroid(bati[j].geom), cell)}

RECURSIVE SumDist(_)
SumDist(P) ==
  IF P = {} THEN 0
  ELSE LET p == CHOOSE e \in P : TRUE
       IN  Dist(Centroid(bati[p[1]].geom), Centroid(bati[p[2]].geom)) + SumDist(P \ {p})

(* Mean distance over the unordered pairs of distinct members.             *)
MeanOverPairs(M) ==
  LET P == {p \in M \X M : p[1] < p[2]} IN Ratio(SumDist(P), Cardinality(P))

(* C10: the reducer yields, for every cell with at least two member        *)
(* records, the mean of the Euclidean distances over all unordered pairs   *)
(* of distinct member records (each record counted once), and the          *)
(* undefined marker for every cell with fewer than two member records.     *)
C10_MeanPairwiseDistance ==
  pc = "dist_done" =>
    \A k \in 1..Len(grid) :
      LET M == Members(grid[k].geom)
          col == features["distance_moyenne_batiments"]
      IN  IF Cardinality(M) >= 2
            THEN HasValue(col, "distance_moyenne_batiments", grid[k].idINSPIRE,
                          MeanOverPairs(M))
            ELSE Undefined(col, "distance_moyenne_batiments", grid[k].idINSPIRE)

(***************************************************************************)
(* Properties of the Feature Table.                                        *)
(***************************************************************************)
RowsOf(id) == Cardinality({k \in 1..Len(merged) : merged[k].idINSPIRE = id})

(* Some feature file has a row for the identifier.                         *)
InSomeColumn(id) ==
  \E f \in DOMAIN features :
    \E k \in 1..Len(features[f]) : ParseInt(features[f][k].idINSPIRE) = id

(* C2 as stated: after fusion every cell identifier of the tessellation    *)
(* has exactly one row in the Feature Table, including cells for which no  *)
(* feature column contains any entry.                                      *)
C2_EveryCellOneRow ==
  pc = "fused" =>
    \A k \in 1..Len(grid) : RowsOf(ParseInt(grid[k].idINSPIRE)) = 1

(* C2 amended: after fusion the Feature Table has exactly one row for      *)
(* every cell identifier that occurs in at least one feature column (each  *)
(* column holding an identifier at most once), no row for a cell for       *)
(* which no feature column contains an entry, and no other identifier.     *)
C2_OneRowPerListedCell ==
  pc = "fused" =>
    /\ \A k \in 1..Len(grid) :
         RowsOf(ParseInt(grid[k].idINSPIRE)) =
           IF InSomeColumn(ParseInt(grid[k].idINSPIRE)) THEN 1 ELSE 0
    /\ \A k \in 1..Len(merged) : InSomeColumn(merged[k].idINSPIRE)

C2_Witness ==
  /\ pc = "fused"
  /\ \E k \in 1..Len(grid) : ~InSomeColumn(ParseInt(grid[k].idINSPIRE))
  /\ \E k \in 1..Len(grid) :
       /\ RowsOf(ParseInt(grid[k].idINSPIRE)) = 1
       /\ \E f \in DOMAIN features :
            Undefined(read_csv(features[f]), f, ParseInt(grid[k].idINSPIRE))

(***************************************************************************)
(* The building and road reducers of appli: feature_sd_h, feature_sd_area, *)
(* feature_h_pond and feature_larg_moy_voirie, each run as its script      *)
(* (the computation and the to_csv of its result).  A building record      *)
(* carries its footprint and, unless the attribute is missing, HAUTEUR; a  *)
(* road record is an axis-parallel segment (a rectangle of no width) with, *)
(* unless missing, LARGEUR.                                                *)
(***************************************************************************)
MaxMorphBati == 3
MaxVoirie == 2

(* The result of an aggregation that is NaN.                               *)
NaN == [nan |-> TRUE]
IsNaN(v) == "nan" \in DOMAIN v

(* bati.geometry.type == "Polygon": a record without geometry is dropped.  *)
Polygons(b) == SelectSeq(b, LAMBDA r : ~IsNull(r.geom))

(* t[t[col].notna()], to_numeric and dropna on the column                  *)
NotNa(t, col) == SelectSeq(t, LAMBDA r : col \in DOMAIN r)

(* bati["area"] = bati.geometry.area                                       *)
WithArea(b) == [j \in 1..Len(b) |-> [area |-> RectArea(b[j].geom)] @@ b[j]]

(* voirie["longueur"] = voirie.geometry.length                             *)
WithLength(v) ==
  [j \in 1..Len(v) |->
     [longueur |-> (v[j].geom.x1 - v[j].geom.x0) + (v[j].geom.y1 - v[j].geom.y0)]
       @@ v[j]]

(* gpd.sjoin(layer, grid, how="inner", predicate="intersects"): one row    *)
(* per (record, grid row) pair whose geometries share a point.             *)
sjoin_inner_intersects(t, g) ==
  LET m == Len(g)
      pairs == [n \in 1..(Len(t) * m) |->
                  [rec |-> ((n - 1) \div m) + 1, row |-> ((n - 1) % m) + 1]]
      hits == SelectSeq(pairs, LAMBDA p : RectIntersects(t[p.rec].geom, g[p.row].geom))
  IN  [n \in 1..Len(hits) |->
         [idINSPIRE |-> g[hits[n].row].idINSPIRE] @@ t[hits[n].rec]]

(* Sum of the products of two columns.                                     *)
SumProd(rows, f, h) == SumField([k \in 1..Len(rows) |-> [p |-> rows[k][f] * rows[k][h]]], "p", 1)

(* Variant of std with the population denominator n.                       *)
std_population(rows, f) ==
  LET n == Len(rows)
      S == SumField(rows, f, 1)
  IN  IF n = 0 THEN NaN
      ELSE [sq |-> Ratio(n * SumProd(rows, f, f) - S * S, n * n)]

(* Series.std() of a group (ddof = 1): NaN for fewer than two values, else *)
(* the square root of (sum of squares - n mean^2) / (n - 1); the value is  *)
(* held by its square, in lowest terms.                                    *)
std(rows, f) ==
  LET n == Len(rows)
      S == SumField(rows, f, 1)
  IN  IF n < 2 THEN NaN
      ELSE [sq |-> Ratio(n * SumProd(rows, f, f) - S * S, n * (n - 1))]

(* joined.groupby("idINSPIRE")[f].std().reset_index(), column renamed      *)
GroupByStd(rows, f, out) ==
  LET keys == SortKeys({rows[k].idINSPIRE : k \in 1..Len(rows)})
  IN  [n \in 1..Len(keys) |->
         LET v == std(Matching(rows, keys[n]), f)
         IN  IF IsNaN(v) THEN [idINSPIRE |-> keys[n]]
             ELSE (out :> v) @@ [idINSPIRE |-> keys[n]]]

(* compute_ecart_type_hauteur(grid)                                        *)
ecart_type_hauteur(g, b) ==
  GroupByStd(sjoin_inner_intersects(NotNa(Polygons(b), "HAUTEUR"), g),
             "HAUTEUR", "ecart_type_hauteur")

(* compute_ecart_type_surface_batiment(grid)                               *)
ecart_type_surface_batiment(g, b) ==
  GroupByStd(sjoin_inner_intersects(
               SelectSeq(WithArea(Polygons(b)), LAMBDA r : r.area > 0), g),
             "area", "ecart_type_surface_batiment")

(* Variant of weighted_mean that ignores the weights.                      *)
mean_unweighted(rows, v, w) == Ratio(SumField(rows, v, 1), Len(rows))

(* sum(v * w) / sum(w) of a group: 0 / 0 is NaN.                           *)
weighted_mean(rows, v, w) ==
  LET sw == SumField(rows, w, 1)
  IN  IF sw = 0 THEN NaN ELSE Ratio(SumProd(rows, v, w), sw)

(* joined.groupby("idINSPIRE").agg(sum of v * w, sum of w), their quotient *)
GroupByWeightedMean(rows, v, w, out) ==
  LET keys == SortKeys({rows[k].idINSPIRE : k \in 1..Len(rows)})
  IN  [n \in 1..Len(keys) |->
         LET q == weighted_mean(Matching(rows, keys[n]), v, w)
         IN  IF IsNaN(q) THEN [idINSPIRE |-> keys[n]]
             ELSE (out :> q) @@ [idINSPIRE |-> keys[n]]]

(* compute_hauteur_ponderee_surface(grid)                                  *)
hauteur_ponderee_surface(g, b) ==
  GroupByWeightedMean(
    sjoin_inner_intersects(
      SelectSeq(WithArea(NotNa(Polygons(b), "HAUTEUR")), LAMBDA r : r.area > 0), g),
    "HAUTEUR", "area", "hauteur_ponderee_surface")

(* compute_largeur_moyenne_voirie(grid)                                    *)
largeur_moyenne_voirie(g, v) ==
  GroupByWeightedMean(sjoin_inner_intersects(WithLength(NotNa(v, "LARGEUR")), g),
                      "LARGEUR", "longueur", "largeur_moyenne_voirie")

(* Input families: the grid of two 5 m cells; buildings inside the first   *)
(* cell, touching the second along its edge, straddling both, inside the   *)
(* second, of no area, without geometry, without height; road segments     *)
(* inside a cell, straddling both, ending on the shared edge, of no        *)
(* length, without width.                                                  *)
MorphBati ==
  {[geom |-> box(0, 0, 2, 5), HAUTEUR |-> 1], [geom |-> box(0, 0, 2, 5), HAUTEUR |-> 3],
   [geom |-> box(0, 0, 2, 5)],
   [geom |-> box(2, 0, 5, 5), HAUTEUR |-> 1],
   [geom |-> box(4, 0, 7, 5), HAUTEUR |-> 3],
   [geom |-> box(6, 0, 8, 5), HAUTEUR |-> 1],
   [geom |-> box(1, 0, 1, 5), HAUTEUR |-> 1],
   [geom |-> NullGeom, HAUTEUR |-> 1]}

MorphVoirie ==
  {[geom |-> box(0, 2, 3, 2), LARGEUR |-> 2], [geom |-> box(3, 2, 9, 2), LARGEUR |-> 4],
   [geom |-> box(1, 2, 5, 2), LARGEUR |-> 6], [geom |-> box(6, 2, 6, 2), LARGEUR |-> 2],
   [geom |-> box(6, 2, 8, 2)]}

InitMorph ==
  /\ pc = "morph_ready"
  /\ variant = "appli"
  /\ cell_size = 5
  /\ secteurs = <<FeatDep>>
  /\ bounds = NoBounds
  /\ grid = Tessellate(variant, cell_size, secteurs)
  /\ intersected = <<>>
  /\ surf = <<>>
  /\ sirene = <<>> /\ recens = <<>> /\ features = <<>> /\ merged = <<>> /\ log = <<>>
  /\ poi = <<>> /\ env = AllPresent /\ pool = NoPool
  /\ \/ bati \in SeqsUpTo(MorphBati, MaxMorphBati) /\ voirie = <<>>
     \/ /\ bati \in {<<>>, <<[geom |-> box(0, 0, 2, 5), HAUTEUR |-> 1],
                            [geom |-> box(4, 0, 7, 5), HAUTEUR |-> 3]>>}
        /\ voirie \in SeqsUpTo(MorphVoirie, MaxVoirie)

(* feature_sd_h run as a script                                            *)
ComputeEcartTypeHauteur ==
  /\ pc = "morph_ready"
  /\ features' = ("ecart_type_hauteur" :> ecart_type_hauteur(grid, bati)) @@ features
  /\ pc' = "sd_h_done"
  /\ UNCHANGED frame

(* feature_sd_area run as a script                                         *)
ComputeEcartTypeSurfaceBatiment ==
  /\ pc = "sd_h_done"
  /\ features' = ("ecart_type_surface_batiment" :>
                    ecart_type_surface_batiment(grid, bati)) @@ features
  /\ pc' = "sd_area_done"
  /\ UNCHANGED frame

(* feature_h_pond run as a script                                          *)
ComputeHauteurPondereeSurface ==
  /\ pc = "sd_area_done"
  /\ features' = ("hauteur_ponderee_surface" :> hauteur_ponderee_surface(grid, bati))
                   @@ features
  /\ pc' = "h_pond_done"
  /\ UNCHANGED frame

(* feature_larg_moy_voirie run as a script                                 *)
ComputeLargeurMoyenneVoirie ==
  /\ pc = "h_pond_done"
  /\ features' = ("largeur_moyenne_voirie" :> largeur_moyenne_voirie(grid, voirie))
                   @@ features
  /\ pc' = "morph_done"
  /\ UNCHANGED frame

NextMorph ==
  \/ ComputeEcartTypeHauteur
  \/ ComputeEcartTypeSurfaceBatiment
  \/ ComputeHauteurPondereeSurface
  \/ ComputeLargeurMoyenneVoirie

SpecMorph == InitMorph /\ [][NextMorph]_vars

(* The records of a layer in a cell under the membership join: those with  *)
(* a geometry that shares a point with the cell.                           *)
JoinedIn(t, cell) ==
  SelectSeq(t, LAMBDA r : ~IsNull(r.geom) /\ RectIntersects(r.geom, cell))

(* Sample standard deviation of the values x of a sequence, by its square: *)
(* the sum of the squared deviations from the mean over n - 1.             *)
SampleStd(xs) ==
  LET n == Len(xs)
      S == SumField([k \in 1..n |-> [x |-> xs[k]]], "x", 1)
      dev == [k \in 1..n |-> [d |-> (n * xs[k] - S) * (n * xs[k] - S)]]
  IN  [sq |-> Ratio(SumField(dev, "d", 1), n * n * (n - 1))]

(* The heights and the areas of the records the two reducers aggregate in  *)
(* a cell.                                                                 *)
HeightsIn(cell) ==
  LET m == JoinedIn(NotNa(bati, "HAUTEUR"), cell)
  IN  [k \in 1..Len(m) |-> m[k].HAUTEUR]

AreasIn(cell) ==
  LET m == SelectSeq(JoinedIn(bati, cell), LAMBDA r : RectArea(r.geom) > 0)
  IN  [k \in 1..Len(m) |-> RectArea(m[k].geom)]

StdAsSpecified(col, f, id, xs) ==
  IF Len(xs) < 2 THEN Undefined(col, f, id) ELSE HasValue(col, f, id, SampleStd(xs))

InterLength(seg, cell) ==
  IF ~RectIntersects(seg, cell) THEN 0
  ELSE (Min(seg.x1, cell.x1) - Max(seg.x0, cell.x0))
         + (Min(seg.y1, cell.y1) - Max(seg.y0, cell.y0))

(* The records the weighted-height reducer aggregates: a geometry of       *)
(* positive area and a height; and those of the road-width reducer.        *)
Weighable ==
  SelectSeq(NotNa(Polygons(bati), "HAUTEUR"), LAMBDA r : RectArea(r.geom) > 0)
Roads == NotNa(voirie, "LARGEUR")

(* sum(value * weight) / sum(weight) over rows [v, w]; undefined when the  *)
(* weights sum to 0.                                                       *)
MeanAsSpecified(col, f, id, rows) ==
  IF SumField(rows, "w", 1) = 0 THEN Undefined(col, f, id)
  ELSE HasValue(col, f, id, Ratio(SumProd(rows, "v", "w"), SumField(rows, "w", 1)))

MaxMix == 3

(* NAF2_TO_FONCTION (the label of code 70 is written without its accent)   *)
NAF2_TO_FONCTION ==
  (<<"4", "5">> :> "automobile") @@ (<<"4", "6">> :> "commerce_gros") @@
  (<<"4", "7">> :> "commerce_detail") @@ (<<"5", "5">> :> "hebergement") @@
  (<<"5", "6">> :> "restauration") @@ (<<"5", "8">> :> "edition") @@
  (<<"5", "9">> :> "audiovisuel") @@ (<<"6", "0">> :> "radio_tv") @@
  (<<"6", "1">> :> "telecom") @@ (<<"6", "2">> :> "informatique") @@
  (<<"6", "3">> :> "services_info") @@ (<<"6", "4">> :> "banque") @@
  (<<"6", "5">> :> "assurance") @@ (<<"6", "6">> :> "finance") @@
  (<<"6", "8">> :> "immobilier") @@ (<<"6", "9">> :> "juridique") @@
  (<<"7", "0">> :> "siege_social") @@ (<<"7", "1">> :> "architecture") @@
  (<<"7", "2">> :> "recherche") @@ (<<"7", "3">> :> "publicite") @@
  (<<"7", "4">> :> "design") @@ (<<"7", "5">> :> "veterinaire") @@
  (<<"7", "7">> :> "location") @@ (<<"7", "8">> :> "interim") @@
  (<<"7", "9">> :> "voyage") @@ (<<"8", "0">> :> "securite") @@
  (<<"8", "1">> :> "services_generaux") @@
  (<<"8", "2">> :> "divers_bureau") @@ (<<"8", "5">> :> "enseignement") @@
  (<<"8", "6">> :> "sante") @@ (<<"8", "7">> :> "hebergement_sante") @@
  (<<"8", "8">> :> "action_sociale") @@ (<<"9", "0">> :> "arts") @@
  (<<"9", "1">> :> "associations") @@ (<<"9", "2">> :> "loisirs") @@
  (<<"9", "3">> :> "sport") @@ (<<"9", "4">> :> "organisation") @@
  (<<"9", "5">> :> "reparation_biens") @@
  (<<"9", "6">> :> "autres_services")

(* The label fillna gives to a code outside the dictionary: "autre" in     *)
(* appli, "other" in modele.                                               *)
CatchAll(v) == IF v = "appli" THEN "autre" ELSE "other"

(* gdf["activitePrincipaleEtablissement"].astype(str): a missing code      *)
(* becomes the text "nan".                                                 *)
AsStr(e) == IF "naf" \in DOMAIN e THEN e.naf ELSE <<"n", "a", "n">>

(* Variant of fonction that keeps the code of an unmapped establishment    *)
(* as its label.                                                           *)
fonction_by_code(v, e) ==
  IF Prefix2(AsStr(e)) \in DOMAIN NAF2_TO_FONCTION
    THEN NAF2_TO_FONCTION[Prefix2(AsStr(e))]
    ELSE Prefix2(AsStr(e))

(* gdf["naf2"].map(NAF2_TO_FONCTION).fillna(catch-all)                     *)
fonction(v, e) ==
  IF Prefix2(AsStr(e)) \in DOMAIN NAF2_TO_FONCTION
    THEN NAF2_TO_FONCTION[Prefix2(AsStr(e))]
    ELSE CatchAll(v)

RECURSIVE Pow(_, _)
Pow(a, b) == IF b = 0 THEN 1 ELSE a * Pow(a, b - 1)

RECURSIVE ProdPow(_, _)
ProdPow(counts, S) ==
  IF S = {} THEN 1
  ELSE LET c == CHOOSE e \in S : TRUE
       IN  Pow(counts[c], counts[c]) * ProdPow(counts, S \ {c})

(* entropy(group): counts = value_counts() of the labels of the joined     *)
(* rows (a row without establishment has a NaN label, which value_counts   *)
(* drops); probs = counts / counts.sum(); -(probs * log(probs)).sum().     *)
(* For a group without any label the sum runs over nothing and is 0.       *)
entropy(labels) ==
  LET cats == {labels[i] : i \in 1..Len(labels)}
      counts == [c \in cats |-> Cardinality({i \in 1..Len(labels) : labels[i] = c})]
  IN  [n |-> Len(labels), w |-> ProdPow(counts, cats)]

(* gpd.sjoin(grid, gdf[["geometry", "fonction"]], how="left",              *)
(* predicate="contains"), restricted to the grid rows of one identifier:   *)
(* the labels of the establishments each such row contains.                *)
RECURSIVE JoinedLabels(_, _, _, _)
JoinedLabels(v, rows, sir, k) ==
  IF k > Len(rows) THEN <<>>
  ELSE LET hits == SelectSeq(sir, LAMBDA e : Contains(rows[k].geom, e.geom))
       IN  [i \in 1..Len(hits) |-> fonction(v, hits[i])]
             \o JoinedLabels(v, rows, sir, k + 1)

(* The sorted group keys of a groupby("idINSPIRE"), by rank.               *)
SortedIds(g) ==
  LET S == {g[k].idINSPIRE : k \in 1..Len(g)}
      rank == [e \in S |-> Cardinality({o \in S : LexLess(o, e)})]
  IN  [n \in 1..Cardinality(S) |-> CHOOSE e \in S : rank[e] = n - 1]

(* joined.groupby("idINSPIRE").apply(entropy).reset_index(name=...)        *)
indice_mixite_fonctionnelle(v, g, sir) ==
  LET keys == SortedIds(g)
  IN  [n \in 1..Len(keys) |->
         [idINSPIRE |-> keys[n],
          indice_mixite_fonctionnelle |->
            entropy(JoinedLabels(v, Matching(g, keys[n]), sir, 1))]]

(* Input families: establishments inside a cell, inside the next one and   *)
(* on their shared edge, with two codes of the dictionary, two outside it  *)
(* and a missing code, on the two-cell grid of appli and on the grid of    *)
(* modele around one sector or two adjacent sectors of one cell.           *)
MixCodes ==
  {<<"4", "7", ".", "1", "1", "B">>, <<"7", "4", ".", "1", "0", "Z">>,
   <<"0", "1", ".", "1", "1", "Z">>, <<"1", "0", ".", "7", "1", "C">>}

MixRecords(u) ==
  {[geom |-> [x |-> u, y |-> u], naf |-> c] : c \in MixCodes}
    \cup {[geom |-> [x |-> u, y |-> u]],
          [geom |-> [x |-> 5 * u, y |-> u], naf |-> <<"4", "7", ".", "1", "1", "B">>],
          [geom |-> [x |-> 6 * u, y |-> u], naf |-> <<"7", "4", ".", "1", "0", "Z">>]}

MixSecteurs ==
  {<<{box(0, 0, 100, 100)}>>, <<{box(0, 0, 100, 100)}, {box(100, 0, 200, 100)}>>}

InitMix ==
  /\ pc = "mix_ready"
  /\ bounds = NoBounds
  /\ bati = <<>> /\ intersected = <<>> /\ surf = <<>>
  /\ recens = <<>> /\ features = <<>> /\ merged = <<>> /\ voirie = <<>> /\ log = <<>>
  /\ poi = <<>> /\ env = AllPresent /\ pool = NoPool
  /\ \/ /\ variant = "appli"
        /\ cell_size = 5
        /\ secteurs = <<FeatDep>>
        /\ grid = Tessellate(variant, cell_size, secteurs)
        /\ sirene \in SeqsUpTo(MixRecords(1), MaxMix)
     \/ /\ variant = "modele"
        /\ cell_size = CELL_SIZE
        /\ secteurs \in MixSecteurs
        /\ grid = Tessellate(variant, cell_size, secteurs)
        /\ sirene \in SeqsUpTo(MixRecords(40), 2)

(* appli feature_in_mix_fonc run as a script                               *)
ComputeIndiceMixiteAppli ==
  /\ pc = "mix_ready" /\ variant = "appli"
  /\ features' = ("indice_mixite_fonctionnelle" :>
                    indice_mixite_fonctionnelle(variant, grid, sirene)) @@ features
  /\ pc' = "mix_done"
  /\ UNCHANGED frame

(* modele in_mix_fonc run as a script                                      *)
ComputeIndiceMixiteModele ==
  /\ pc = "mix_ready" /\ variant = "modele"
  /\ features' = ("indice_mixite_fonctionnelle" :>
                    indice_mixite_fonctionnelle(variant, grid, sirene)) @@ features
  /\ pc' = "mix_done"
  /\ UNCHANGED frame

NextMix == ComputeIndiceMixiteAppli \/ ComputeIndiceMixiteModele

SpecMix == InitMix /\ [][NextMix]_vars

(* The establishment records a cell contains.                              *)
Establishments(cell) == {j \in 1..Len(sirene) : Contains(cell, sirene[j].geom)}

(* The function category of a record: the label of its NAF code, or the    *)
(* single catch-all category when the code is not in NAF2_TO_FONCTION.     *)
Category(e) ==
  IF "naf" \in DOMAIN e /\ Prefix2(e.naf) \in DOMAIN NAF2_TO_FONCTION
    THEN NAF2_TO_FONCTION[Prefix2(e.naf)]
    ELSE "catch-all"

Categories(cell) == {Category(sirene[j]) : j \in Establishments(cell)}

(* The entropy held by n and w is 0: ln n = ln(w) / n.                     *)
IsZeroEntropy(v) == v.w = Pow(v.n, v.n)

MixValue(id) ==
  Matching(features["indice_mixite_fonctionnelle"], id)[1].indice_mixite_fonctionnelle

(* C13: the entropy (functional-mix) reducer yields the undefined marker   *)
(* for a cell that contains no establishment record, and 0 for a cell      *)
(* whose records all fall in a single category; an empty cell is never     *)
(* reported with entropy 0.                                                *)
C13_EmptyUndefinedSingleZero ==
  pc = "mix_done" =>
    \A k \in 1..Len(grid) :
      LET col == features["indice_mixite_fonctionnelle"]
          id == grid[k].idINSPIRE
      IN  /\ Establishments(grid[k].geom) = {} =>
               Undefined(col, "indice_mixite_fonctionnelle", id)
          /\ Cardinality(Categories(grid[k].geom)) = 1 =>
               /\ ~Undefined(col, "indice_mixite_fonctionnelle", id)
               /\ IsZeroEntropy(MixValue(id))

(* C14: for every cell with at least one record, the entropy computed by   *)
(* the functional-mix reducer lies in [0, ln(k)], k being the number of    *)
(* distinct function categories observed in the cell, the records whose    *)
(* NAF code is not in NAF2_TO_FONCTION all counted in one single catch-all *)
(* category: 0 <= ln n - ln(w)/n <= ln k, i.e. w <= n^n <= k^n w.          *)
C14_EntropyWithinLnK ==
  pc = "mix_done" =>
    \A j \in 1..Len(grid) :
      Establishments(grid[j].geom) # {} =>
        LET v == MixValue(grid[j].idINSPIRE)
            k == Cardinality(Categories(grid[j].geom))
        IN  /\ ~Undefined(features["indice_mixite_fonctionnelle"],
                          "indice_mixite_fonctionnelle", grid[j].idINSPIRE)
            /\ v.n > 0
            /\ v.w <= Pow(v.n, v.n)
            /\ Pow(v.n, v.n) <= Pow(k, v.n) * v.w

(* A cell with two records outside the dictionary, of different codes, and *)
(* one inside it: two categories, entropy strictly between 0 and ln 2.     *)
C14_Witness ==
  /\ pc = "mix_done"
  /\ \E j \in 1..Len(grid) :
       LET E == Establishments(grid[j].geom)
           v == MixValue(grid[j].idINSPIRE)
       IN  /\ Cardinality(Categories(grid[j].geom)) = 2
           /\ \E a, b \in E :
                /\ Category(sirene[a]) = "catch-all" /\ Category(sirene[b]) = "catch-all"
                /\ "naf" \in DOMAIN sirene[a] /\ "naf" \in DOMAIN sirene[b]
                /\ Prefix2(sirene[a].naf) # Prefix2(sirene[b].naf)
           /\ v.w < Pow(v.n, v.n)
           /\ Pow(v.n, v.n) < Pow(2, v.n) * v.w

(***************************************************************************)
(* Properties of the built-surface table.                                  *)
(***************************************************************************)
(* The built-surface value the table holds for a cell (no row: nothing     *)
(* built).                                                                 *)
SurfBatie(id) == IF InSurf(id) THEN Matching(surf, id)[1].surf_batie ELSE 0

(* Sum over all buildings of the exact area of (building intersect cell).  *)
ExactBuiltArea(cell) ==
  SumField([j \in 1..Len(bati) |->
              [a |-> IF IsNull(bati[j].geom) THEN 0 ELSE InterArea(bati[j].geom, cell)]],
           "a", 1)

(* The building lies wholly inside the union of the grid's cells.          *)
InsideGrid(geom) ==
  RectArea(geom) =
    SumField([k \in 1..Len(grid) |->
                [a |-> IF \E i \in 1..(k - 1) : grid[i].geom = grid[k].geom
                         THEN 0 ELSE InterArea(geom, grid[k].geom)]], "a", 1)

(* C15: the built-surface value of a cell equals the sum, over all         *)
(* buildings, of the exact area of (building intersect cell): a building   *)
(* of area 300 split 120 / 180 between two adjacent cells contributes      *)
(* exactly 120 to the first and 180 to the second, and for a building      *)
(* lying wholly inside the grid its per-cell contributions sum to its full *)
(* area.                                                                   *)
C15_ExactBuiltSurface ==
  pc = "surf_done" =>
    /\ \A k \in 1..Len(grid) :
         SurfBatie(grid[k].idINSPIRE) = ExactBuiltArea(grid[k].geom)
    /\ \A j \in 1..Len(bati) :
         (~IsNull(bati[j].geom) /\ InsideGrid(bati[j].geom)) =>
            Attributed(j) = RectArea(bati[j].geom)

(***************************************************************************)
(* fusion_features on the feature files it finds in the directory,         *)
(* whatever wrote them: files whose rows may repeat a cell identifier, or  *)
(* no file at all.                                                         *)
(***************************************************************************)
MaxRows == 2

(* The rows a feature file may hold: an identifier and a value or NaN.     *)
FileRows(f) ==
  {(f :> v) @@ [idINSPIRE |-> ToStr(i)] : i \in 0..1, v \in {Zero, Ratio(1, 2)}}
    \cup {[idINSPIRE |-> ToStr(i)] : i \in 0..1}

(* The files in which every identifier is on one row at most.              *)
CellUnique(f) ==
  {t \in SeqsUpTo(FileRows(f), MaxRows) :
     \A i, j \in 1..Len(t) : i # j => t[i].idINSPIRE # t[j].idINSPIRE}

InitFusion ==
  /\ pc = "feat_done"
  /\ variant = "appli"
  /\ cell_size = 5
  /\ secteurs = <<FeatDep>>
  /\ bounds = NoBounds
  /\ grid = Tessellate(variant, cell_size, secteurs)
  /\ bati = <<>> /\ intersected = <<>> /\ surf = <<>>
  /\ sirene = <<>> /\ recens = <<>> /\ merged = <<>> /\ voirie = <<>> /\ log = <<>>
  /\ poi = <<>> /\ env = AllPresent /\ pool = NoPool
  /\ \/ features = <<>>
     \/ \E a \in SeqsUpTo(FileRows("part_jeunes"), MaxRows),
           b \in SeqsUpTo(FileRows("densite_commerces"), MaxRows) :
          features = [part_jeunes |-> a, densite_commerces |-> b]
     \/ \E a \in CellUnique("part_jeunes"), b \in CellUnique("densite_commerces"),
           c \in CellUnique("densite_etablissements") :
          features = [part_jeunes |-> a, densite_commerces |-> b,
                      densite_etablissements |-> c]

SpecFusion == InitFusion /\ [][FusionFeatures]_vars

(* A feature column holds the same cell identifier on more than one row.   *)
NotCellUnique(t) ==
  \E i, j \in 1..Len(t) : i # j /\ t[i].idINSPIRE = t[j].idINSPIRE

(* C16: when a feature column given to the assembler contains the same     *)
(* cell identifier on more than one row, fusion fails with a SchemaError   *)
(* and produces no Feature Table; it never outputs a table in which a cell *)
(* identifier appears on more than one row.                                *)
C16_DuplicateKeysRejected ==
  pc = "fused" =>
    /\ (\E f \in DOMAIN features : NotCellUnique(features[f])) =>
          /\ merged = <<>>
          /\ \E n \in 1..Len(log) : log[n].status = "err"
    /\ ~NotCellUnique(merged)

(***************************************************************************)
(* The other reducers the feature pipeline of appli schedules:             *)
(* feature_poi, feature_emp_est and feature_shape_index.                   *)
(***************************************************************************)
(* a + b and a / n on exact fractions                                      *)
AddRatio(a, b) == Ratio(a.num * b.den + b.num * a.den, a.den * b.den)

RECURSIVE SumRatios(_, _)
SumRatios(qs, k) == IF k > Len(qs) THEN Zero ELSE AddRatio(qs[k], SumRatios(qs, k + 1))

MeanRatio(qs) == LET s == SumRatios(qs, 1) IN Ratio(s.num, s.den * Len(qs))

(* The establishments or points a grid row contains (left join on          *)
(* "contains"), for all the grid rows of one identifier.                   *)
RECURSIVE ContainedBy(_, _, _)
ContainedBy(rows, pts, k) ==
  IF k > Len(rows) THEN <<>>
  ELSE SelectSeq(pts, LAMBDA e : Contains(rows[k].geom, e.geom))
         \o ContainedBy(rows, pts, k + 1)

(* score_POI.csv read into a dict: the score of a type of point.           *)
weights == ("cafe" :> 2) @@ ("bank" :> 3)

(* gdf["type_poi"].map(weights).fillna(0)                                  *)
poids(p) == IF p.type_poi \in DOMAIN weights THEN weights[p.type_poi] ELSE 0

(* compute_score_poi_pondere(grid): the sum of the weights of the points   *)
(* each cell contains, 0 for a cell that contains none.                    *)
score_poi_pondere(g, pts) ==
  LET keys == SortedIds(g)
  IN  [n \in 1..Len(keys) |->
         LET in == ContainedBy(Matching(g, keys[n]), pts, 1)
         IN  [idINSPIRE |-> keys[n],
              score_poi_pondere |->
                SumField([i \in 1..Len(in) |-> [poids |-> poids(in[i])]], "poids", 1)]]

(* TRANCHE_TO_EFFECTIF                                                     *)
TRANCHE_TO_EFFECTIF ==
  ("00" :> Ratio(0, 1)) @@ ("01" :> Ratio(3, 2)) @@ ("02" :> Ratio(4, 1)) @@
  ("03" :> Ratio(8, 1)) @@ ("11" :> Ratio(15, 1)) @@ ("12" :> Ratio(35, 1)) @@
  ("21" :> Ratio(75, 1)) @@ ("22" :> Ratio(150, 1)) @@ ("31" :> Ratio(225, 1)) @@
  ("32" :> Ratio(350, 1)) @@ ("41" :> Ratio(500, 1)) @@ ("42" :> Ratio(750, 1)) @@
  ("51" :> Ratio(1000, 1)) @@ ("52" :> Ratio(1500, 1)) @@ ("53" :> Ratio(2000, 1))

(* gdf["trancheEffectifsEtablissement"].map(TRANCHE_TO_EFFECTIF) is known  *)
HasTranche(e) ==
  /\ "trancheEffectifsEtablissement" \in DOMAIN e
  /\ e.trancheEffectifsEtablissement \in DOMAIN TRANCHE_TO_EFFECTIF

(* The estimate of one establishment: its class value, else the mean class *)
(* value of the establishments of its NAF prefix with a known class        *)
(* (naf_fallback), else 0.                                                 *)
emplois_estimes(sir, e) ==
  LET known == SelectSeq(sir, LAMBDA o :
                 HasTranche(o) /\ Prefix2(AsStr(o)) = Prefix2(AsStr(e)))
  IN  IF HasTranche(e) THEN TRANCHE_TO_EFFECTIF[e.trancheEffectifsEtablissement]
      ELSE IF Len(known) > 0
        THEN MeanRatio([i \in 1..Len(known) |->
                          TRANCHE_TO_EFFECTIF[known[i].trancheEffectifsEtablissement]])
        ELSE Zero

(* compute_emplois_estimes_pondere(grid): the sum of the estimates of the  *)
(* establishments each cell contains, 0 for a cell that contains none.     *)
emplois_estimes_pondere(g, sir) ==
  LET keys == SortedIds(g)
  IN  [n \in 1..Len(keys) |->
         LET in == ContainedBy(Matching(g, keys[n]), sir, 1)
         IN  [idINSPIRE |-> keys[n],
              emplois_estimes_pondere |->
                SumRatios([i \in 1..Len(in) |-> emplois_estimes(sir, in[i])], 1)]]

(* perimeter ** 2 / (4 * pi * area) of a rectangle, in units of 1/(4 pi)   *)
shape_index(r) ==
  Ratio(4 * ((r.x1 - r.x0) + (r.y1 - r.y0)) * ((r.x1 - r.x0) + (r.y1 - r.y0)),
        RectArea(r))

(* compute_shape_index_moyen(grid): the mean shape index of the buildings  *)
(* of positive area that share a point with the cell.                      *)
shape_index_moyen(g, b) ==
  LET joined == sjoin_inner_intersects(
                  SelectSeq(WithArea(Polygons(b)), LAMBDA r : r.area > 0), g)
      keys == SortKeys({joined[k].idINSPIRE : k \in 1..Len(joined)})
  IN  [n \in 1..Len(keys) |->
         LET grp == Matching(joined, keys[n])
         IN  [idINSPIRE |-> keys[n],
              shape_index_moyen |->
                MeanRatio([i \in 1..Len(grp) |-> shape_index(grp[i].geom)])]]

(***************************************************************************)
(* The feature pipeline of appli: features_pipeline.main, one action per   *)
(* safe_run call.  env tells, for each input, whether its file is present  *)
(* and well formed ("ok"), absent ("missing") or lacks an attribute the    *)
(* reducers read ("bad": longitude for the establishments, HAUTEUR for the *)
(* buildings, an age column for the census), and whether the directory     *)
(* the columns are written to exists.                                      *)
(***************************************************************************)
(* pd.DataFrame(columns=["idINSPIRE", name]): the table of no row a        *)
(* reducer returns after it reported an error.                             *)
EmptyFrame == <<>>

(* What a call returns or raises, and the lines it printed.                *)
Outcome(raised, diag, df) == [raised |-> raised, diag |-> diag, df |-> df]

Reported(step) == Outcome(FALSE, <<print_status(<<step>>, "err")>>, EmptyFrame)
Returned(df) == Outcome(FALSE, <<>>, df)
Raised == Outcome(TRUE, <<>>, EmptyFrame)

(* A reducer that reads one input inside its try block.                    *)
Guarded(state, df, missing, error) ==
  CASE state = "ok" -> Returned(df)
    [] state = "missing" -> Reported(missing)
    [] OTHER -> Reported(error)

compute_score_poi_pondere ==
  IF env.poi = "ok" THEN Returned(score_poi_pondere(grid, poi))
  ELSE Outcome(FALSE,
               <<print_status(<<"amenity", ".geojson missing">>, "err"),
                 print_status(<<"shop", ".geojson missing">>, "err"),
                 print_status(<<"office", ".geojson missing">>, "err"),
                 print_status(<<"leisure", ".geojson missing">>, "err"),
                 print_status(<<"No valid POI loaded">>, "err")>>,
               EmptyFrame)

compute_emplois_estimes_pondere ==
  Guarded(env.sirene, emplois_estimes_pondere(grid, sirene),
          "SIRENE file not found", "Error computing weighted job estimates")

compute_indice_mixite_fonctionnelle ==
  Guarded(env.sirene, indice_mixite_fonctionnelle(variant, grid, sirene),
          "SIRENE file missing", "Error computing functional mix index")

compute_part_population_active ==
  Guarded(env.recens, part_population_active(recens),
          "Aggregated census file missing", "Missing columns in census file")

compute_part_jeunes ==
  Guarded(env.recens, part_jeunes(recens),
          "Aggregated census file missing", "Missing columns in census file")

(* The reducers of the building layer; shape index and area deviation do   *)
(* not read HAUTEUR, the distance reducer does not test for the file.      *)
compute_shape_index_moyen ==
  Guarded(IF env.bati = "bad" THEN "ok" ELSE env.bati, shape_index_moyen(grid, bati),
          "BATIMENT.shp file not found", "Error computing average shape index")

compute_hauteur_ponderee_surface ==
  Guarded(env.bati, hauteur_ponderee_surface(grid, bati),
          "BATIMENT.shp file not found", "Error computing height weighted by surface area")

compute_ecart_type_hauteur ==
  Guarded(env.bati, ecart_type_hauteur(grid, bati),
          "BATIMENT.shp file not found",
          "Error computing standard deviation of building heights")

compute_ecart_type_surface_batiment ==
  Guarded(IF env.bati = "bad" THEN "ok" ELSE env.bati,
          ecart_type_surface_batiment(grid, bati),
          "BATIMENT.shp file not found",
          "Error computing standard deviation of building surface areas")

compute_distance_moyenne_batiments ==
  Guarded(IF env.bati = "bad" THEN "ok" ELSE env.bati,
          distance_by_group(sjoin_within(bati, grid)),
          "Error computing average building distances",
          "Error computing average building distances")

(* compute_densite_etablissements() and compute_densite_commerces() take   *)
(* no parameter, write their file themselves and return None, on which     *)
(* safe_run's df.to_csv raises.                                            *)
compute_densite_etablissements == Raised
compute_densite_commerces == Raised

(* The calls of main in order: the name, the number of parameters the      *)
(* function accepts, and whether main passes the grid (or None).           *)
Scheduled ==
  <<[name |-> "score_poi_pondere", params |-> 1, grid |-> TRUE],
    [name |-> "emplois_estimes_pondere", params |-> 1, grid |-> TRUE],
    [name |-> "densite_etablissements", params |-> 0, grid |-> TRUE],
    [name |-> "densite_commerces", params |-> 0, grid |-> TRUE],
    [name |-> "indice_mixite_fonctionnelle", params |-> 1, grid |-> TRUE],
    [name |-> "part_population_active", params |-> 0, grid |-> FALSE],
    [name |-> "part_jeunes", params |-> 0, grid |-> FALSE],
    [name |-> "shape_index_moyen", params |-> 1, grid |-> TRUE],
    [name |-> "hauteur_ponderee_surface", params |-> 1, grid |-> TRUE],
    [name |-> "ecart_type_hauteur", params |-> 1, grid |-> TRUE],
    [name |-> "ecart_type_surface_batiment", params |-> 1, grid |-> TRUE],
    [name |-> "distance_moyenne_batiments", params |-> 1, grid |-> TRUE]>>

(* The function main passes to its i-th call.                               *)
func(i) ==
  CASE i = 1 -> compute_score_poi_pondere
    [] i = 2 -> compute_emplois_estimes_pondere
    [] i = 3 -> compute_densite_etablissements
    [] i = 4 -> compute_densite_commerces
    [] i = 5 -> compute_indice_mixite_fonctionnelle
    [] i = 6 -> compute_part_population_active
    [] i = 7 -> compute_part_jeunes
    [] i = 8 -> compute_shape_index_moyen
    [] i = 9 -> compute_hauteur_ponderee_surface
    [] i = 10 -> compute_ecart_type_hauteur
    [] i = 11 -> compute_ecart_type_surface_batiment
    [] i = 12 -> compute_distance_moyenne_batiments

(* df = func(grid) if grid is not None else func(): a call with an         *)
(* argument the function does not accept raises TypeError.                 *)
Invoke(i) ==
  IF (IF Scheduled[i].grid THEN 1 ELSE 0) # Scheduled[i].params THEN Raised ELSE func(i)

(* safe_run(name, func, grid), the i-th call of main                       *)
safe_run(i) ==
  LET call == Scheduled[i]
      r == Invoke(i)
      written == ~r.raised /\ env.out_dir
  IN  /\ pc = (IF i = 1 THEN "pipeline_start" ELSE Scheduled[i - 1].name)
      /\ features' = IF written THEN (call.name :> r.df) @@ features ELSE features
      /\ log' = log \o <<print_status(<<"Starting", call.name>>, "info")>> \o r.diag
                  \o <<IF written THEN print_status(<<call.name, "completed">>, "ok")
                       ELSE print_status(<<call.name, "failed">>, "err")>>
      /\ pc' = call.name
      /\ UNCHANGED <<variant, cell_size, secteurs, bounds, grid, bati, intersected, surf,
                     sirene, recens, merged, voirie, poi, env, pool>>

RunScorePoiPondere == safe_run(1)
RunEmploisEstimesPondere == safe_run(2)
RunDensiteEtablissements == safe_run(3)
RunDensiteCommerces == safe_run(4)
RunIndiceMixiteFonctionnelle == safe_run(5)
RunPartPopulationActive == safe_run(6)
RunPartJeunes == safe_run(7)
RunShapeIndexMoyen == safe_run(8)
RunHauteurPondereeSurface == safe_run(9)
RunEcartTypeHauteur == safe_run(10)
RunEcartTypeSurfaceBatiment == safe_run(11)
RunDistanceMoyenneBatiments == safe_run(12)

(* The inputs of the explored runs: two 10 m cells; three buildings, two   *)
(* of them in the first cell; three establishments, one of unknown         *)
(* headcount class; a census row per cell; two points of interest.         *)
PipeBati ==
  <<[geom |-> box(1, 1, 3, 3), HAUTEUR |-> 1], [geom |-> box(4, 5, 6, 7), HAUTEUR |-> 3],
    [geom |-> box(11, 1, 13, 3), HAUTEUR |-> 1]>>

PipeSirene ==
  <<[geom |-> [x |-> 1, y |-> 1], naf |-> <<"4", "7", ".", "1", "1", "B">>,
     trancheEffectifsEtablissement |-> "01"],
    [geom |-> [x |-> 2, y |-> 2], naf |-> <<"4", "7", ".", "2", "1", "Z">>],
    [geom |-> [x |-> 12, y |-> 2], naf |-> <<"0", "1", ".", "1", "1", "Z">>,
     trancheEffectifsEtablissement |-> "02"]>>

PipePoi ==
  <<[geom |-> [x |-> 1, y |-> 1], type_poi |-> "cafe"],
    [geom |-> [x |-> 2, y |-> 1], type_poi |-> "bench"]>>

PipeRecens(g) ==
  [k \in 1..Len(g) |->
     [c \in {"ind"} \cup AgeColumns |->
        CASE c = "ind" -> 2 [] c = "ind_0_3" -> 1 [] c = "ind_25_39" -> 1 [] OTHER -> 0]
       @@ [idINSPIRE |-> g[k].idINSPIRE]]

(* The files an earlier run, on another grid, left in the directory.       *)
StaleFile(name) == <<(name :> Ratio(7, 1)) @@ [idINSPIRE |-> ToStr(9)]>>
StaleFiles ==
  [name \in {Scheduled[i].name : i \in 1..Len(Scheduled)} |-> StaleFile(name)]

States == {"ok", "missing", "bad"}

InitPipeline ==
  /\ pc = "pipeline_start" /\ pool = NoPool
  /\ variant = "appli"
  /\ cell_size = 10
  /\ secteurs = <<{box(0, 0, 20, 10)}>>
  /\ bounds = NoBounds
  /\ grid = Tessellate(variant, cell_size, secteurs)
  /\ intersected = <<>> /\ surf = <<>> /\ merged = <<>> /\ voirie = <<>> /\ log = <<>>
  /\ env \in [sirene : States, bati : States, recens : States, poi : {"ok", "missing"},
              out_dir : BOOLEAN]
  /\ features \in (IF env.out_dir THEN {<<>>, StaleFiles} ELSE {<<>>})
  /\ sirene = (IF env.sirene = "missing" THEN NoFile ELSE PipeSirene)
  /\ bati = (CASE env.bati = "missing" -> NoFile
               [] env.bati = "bad" -> [j \in 1..Len(PipeBati) |-> [geom |-> PipeBati[j].geom]]
               [] OTHER -> PipeBati)
  /\ recens = (IF env.recens = "ok" THEN PipeRecens(grid) ELSE NoFile)
  /\ poi = (IF env.poi = "ok" THEN PipePoi ELSE NoFile)

NextPipeline ==
  \/ RunScorePoiPondere
  \/ RunEmploisEstimesPondere
  \/ RunDensiteEtablissements
  \/ RunDensiteCommerces
  \/ RunIndiceMixiteFonctionnelle
  \/ RunPartPopulationActive
  \/ RunPartJeunes
  \/ RunShapeIndexMoyen
  \/ RunHauteurPondereeSurface
  \/ RunEcartTypeHauteur
  \/ RunEcartTypeSurfaceBatiment
  \/ RunDistanceMoyenneBatiments

SpecPipeline == InitPipeline /\ [][NextPipeline]_vars

(***************************************************************************)
(* Properties of the feature pipeline.                                     *)
(***************************************************************************)
PipelineDone == pc = Scheduled[Len(Scheduled)].name

(* The lines printed for a feature: from its "Starting" line up to the     *)
(* next one.                                                               *)
LinesOf(name) ==
  LET start == {n \in 1..Len(log) : log[n].step = <<"Starting", name>>}
  IN  {n \in 1..Len(log) :
         \E s \in start :
           /\ s <= n
           /\ \A m \in (s + 1)..n : log[m].step[1] # "Starting"}

Attempted(name) == LinesOf(name) # {}
ReportedCompleted(name) ==
  \E n \in LinesOf(name) : log[n] = print_status(<<name, "completed">>, "ok")
ReportedFailure(name) == \E n \in LinesOf(name) : log[n].status = "err"

(* The computation of the i-th feature hit an error: a missing input, a    *)
(* missing attribute, an exception in the call or in the write.            *)
HitError(i) ==
  LET r == Invoke(i)
  IN  r.raised \/ ~env.out_dir \/ \E n \in 1..Len(r.diag) : r.diag[n].status = "err"

(* The run left a file for the feature that it did not inherit.            *)
DeliveredColumn(name) ==
  name \in DOMAIN features /\ features[name] # StaleFile(name)

(* C17: for every sequence of successes and failures of the individual     *)
(* feature computations, a failure of one feature never prevents any later *)
(* feature from being attempted and never alters the output of another     *)
(* feature; the failed feature's column is absent (no file is written or   *)
(* left for it) rather than present with empty or stale content.           *)
C17_FailureIsolatedAndAbsent ==
  PipelineDone =>
    \A i \in 1..Len(Scheduled) :
      LET name == Scheduled[i].name
      IN  /\ Attempted(name)
          /\ ~HitError(i) =>
               name \in DOMAIN features /\ features[name] = Invoke(i).df
          /\ HitError(i) => name \notin DOMAIN features

(* C18: for each feature run by the pipeline the outcome is exactly one    *)
(* of a completed Feature Column or an explicit failure with a diagnostic; *)
(* a feature whose computation hit an error (missing input file, missing   *)
(* required attribute, exception inside the reducer) is never reported as  *)
(* completed and never delivers a column.                                  *)
C18_CompletedXorFailed ==
  PipelineDone =>
    \A i \in 1..Len(Scheduled) :
      LET name == Scheduled[i].name
      IN  /\ ReportedCompleted(name) # ReportedFailure(name)
          /\ ReportedCompleted(name) => DeliveredColumn(name)
          /\ HitError(i) => ~ReportedCompleted(name) /\ ~DeliveredColumn(name)

(***************************************************************************)
(* The preprocessing pipeline: preprocess_pipeline.main runs the           *)
(* tessellator, the census adaptation and the built-surface computation    *)
(* one after the other, each inside safe_run.  The files on disk are held  *)
(* in features ("grid", "recens_agrege", "surf_batie"); recens is the      *)
(* census layer of 200 m cells and bati the building layer.  env tells     *)
(* whether the boundary source can be read, whether the configured cell    *)
(* size is the text of an integer, whether the census and building layers  *)
(* exist, and whether an earlier run left a grid file at the grid's path.  *)
(* The data directories exist.  The modele variant is explored from the    *)
(* point where the sector merge has returned.                              *)
(***************************************************************************)
MaxPreCell == 2

PreDeps == {{box(0, 0, 2, 1)}, {box(0, 0, 3, 2)}}

PreSecteurs ==
  {<<{box(0, 0, 100, 100)}>>, <<{box(0, 0, 100, 100)}, {box(100, 0, 200, 100)}>>}

PreRecens == <<[geom |-> box(0, 0, 2, 2), ind |-> 3], [geom |-> box(2, 0, 4, 2), ind |-> 2]>>

PreBati == <<[geom |-> box(0, 0, 2, 1)], [geom |-> box(2, 0, 3, 2)]>>

(* grid.to_file(output, driver="GeoJSON") and to_parquet(index=False):     *)
(* the columns are written, the index is not.                              *)
to_file(g) == [k \in 1..Len(g) |-> [f \in (DOMAIN g[k]) \ {"index"} |-> g[k][f]]]

(* The one-cell grid an earlier run left at the path of the grid file.     *)
StaleGrid == to_file(Tessellate("appli", 1, <<{box(0, 0, 1, 1)}>>))

(* What a stage did: whether an exception left it, the lines it printed    *)
(* and the files on disk when it ended.                                    *)
Ran(raised, diag, files) == [raised |-> raised, diag |-> diag, files |-> files]

(* A frame read from a grid file that holds no feature has no idINSPIRE    *)
(* column.                                                                 *)
Readable(name) == name \in DOMAIN features /\ features[name] # <<>>

(***************************************************************************)
(* preprocess_create_grid.main().  int(config["maillage"]) is evaluated    *)
(* before the try block; every later error is caught by main and printed.  *)
(* A cell size of 0 makes numpy.arange raise; a negative one makes it      *)
(* return no coordinate, so that the grid has no cell.  Writing a frame    *)
(* without rows raises in some versions of the library and writes a file   *)
(* without features in others: empty_write is that outcome.                *)
(***************************************************************************)
preprocess_create_grid_main(empty_write) ==
  LET creating == print_status(<<"Creating grid">>, "info")
      failed(detail) ==
        Ran(FALSE, <<creating, print_status(<<"Grid creation failed", detail>>, "err")>>,
            features)
  IN  CASE env.maillage = "text" -> Ran(TRUE, <<>>, features)
        [] env.maillage # "text" /\ env.boundary # "ok" -> failed("read_file")
        [] env.maillage # "text" /\ env.boundary = "ok" /\ secteurs = <<>> ->
             failed("Department not found.")
        [] env.maillage # "text" /\ env.boundary = "ok" /\ secteurs # <<>>
             /\ cell_size = 0 -> failed("arange")
        [] OTHER ->
             LET g == IF cell_size < 0 THEN <<>>
                      ELSE Tessellate("appli", cell_size, secteurs)
             IN  IF g = <<>> /\ empty_write = "raise" THEN failed("to_file")
                 ELSE Ran(FALSE, <<creating, print_status(<<"Grid saved">>, "ok")>>,
                          ("grid" :> to_file(g)) @@ features)

(***************************************************************************)
(* create_grid_secteurs.main(): the cell size is the constant CELL_SIZE;   *)
(* a missing or empty sector file raises inside the try block and the      *)
(* error is printed by main.                                               *)
(***************************************************************************)
create_grid_secteurs_main ==
  LET starting == print_status(<<"Starting grid creation">>, "info")
      failed(detail) ==
        Ran(FALSE, <<starting, print_status(<<"Error", detail>>, "err")>>, features)
  IN  CASE env.boundary # "ok" -> failed("File not found")
        [] env.boundary = "ok" /\ secteurs = <<>> -> failed("Sector file is empty.")
        [] OTHER ->
             Ran(FALSE,
                 <<starting, print_status(<<"Bounds used">>, "info"),
                   print_status(<<"Initial grid">>, "info"),
                   print_status(<<"Grid after intersection">>, "info"),
                   print_status(<<"Grid saved">>, "ok")>>,
                 ("grid" :> to_file(Tessellate("modele", CELL_SIZE, secteurs)))
                   @@ features)

(* gpd.sjoin(grid, recens, how="left", predicate="intersects"), the sum of *)
(* the indicator per idINSPIRE, merged back on the grid's identifiers      *)
(* with fillna(0).                                                         *)
recens_agrege(g, rec) ==
  [k \in 1..Len(g) |->
     [idINSPIRE |-> g[k].idINSPIRE,
      ind |-> SumField(SelectSeq(rec, LAMBDA c : RectIntersects(g[k].geom, c.geom)),
                       "ind", 1)]]

(* adapt_recens_to_maillage(): no try block, every error leaves the call.  *)
adapt_recens_to_maillage ==
  LET l1 == print_status(<<"Loading census data">>, "info")
      l2 == print_status(<<"Loading target grid">>, "info")
      l3 == print_status(<<"Performing spatial join between grid and census cells">>, "info")
      l4 == print_status(<<"Aggregating INSEE indicators">>, "info")
      l5 == print_status(<<"Final merge with complete grid">>, "info")
      l6 == print_status(<<"Aggregated census file exported">>, "ok")
  IN  CASE env.maillage = "text" -> Ran(TRUE, <<>>, features)
        [] env.maillage # "text" /\ env.recens # "ok" -> Ran(TRUE, <<l1>>, features)
        [] env.maillage # "text" /\ env.recens = "ok" /\ ~("grid" \in DOMAIN features) ->
             Ran(TRUE, <<l1, l2>>, features)
        [] env.maillage # "text" /\ env.recens = "ok" /\ "grid" \in DOMAIN features
             /\ ~Readable("grid") -> Ran(TRUE, <<l1, l2, l3, l4>>, features)
        [] OTHER ->
             Ran(FALSE, <<l1, l2, l3, l4, l5, l6>>,
                 ("recens_agrege" :> recens_agrege(features["grid"], recens)) @@ features)

(* compute_surface_batie(): the path of the grid is built from the raw     *)
(* configured value; no try block.                                         *)
compute_surface_batie ==
  LET l1 == print_status(<<"Loading data">>, "info")
      l2 == print_status(<<"Calculating individual building surfaces">>, "info")
      l3 == print_status(<<"Spatial intersection buildings -> grid">>, "info")
      l4 == print_status(<<"Aggregating by grid cell">>, "info")
      l5 == print_status(<<"Built surface area export completed">>, "ok")
  IN  CASE env.maillage = "text" \/ ~("grid" \in DOMAIN features) \/ env.bati # "ok" ->
             Ran(TRUE, <<l1>>, features)
        [] env.maillage # "text" /\ "grid" \in DOMAIN features /\ env.bati = "ok"
             /\ ~Readable("grid") -> Ran(TRUE, <<l1, l2, l3, l4>>, features)
        [] OTHER ->
             Ran(FALSE, <<l1, l2, l3, l4, l5>>,
                 ("surf_batie" :> surf_batie_csv(features["grid"], bati)) @@ features)

(* safe_run(name, func) of the preprocessing pipelines; starting is the    *)
(* first line it prints ("Starting <name>", "Starting: <name>").           *)
preprocess_safe_run(name, previous, starting, r) ==
  /\ pc = previous
  /\ features' = r.files
  /\ log' = log \o <<print_status(<<starting, name>>, "info")>> \o r.diag
              \o <<IF r.raised THEN print_status(<<name, "failed">>, "err")
                   ELSE print_status(<<name, "completed">>, "ok")>>
  /\ pc' = name
  /\ UNCHANGED <<variant, cell_size, secteurs, bounds, grid, bati, intersected, surf,
                 sirene, recens, merged, voirie, poi, env, pool>>

(* safe_run("create_grid", create_grid) *)
RunCreateGrid ==
  /\ variant = "appli"
  /\ \E empty_write \in {"raise", "write"} :
       preprocess_safe_run("create_grid", "preprocess_start", "Starting",
                           preprocess_create_grid_main(empty_write))

(* safe_run("adapt_recens_maillage", adapt_recens_to_maillage) *)
RunAdaptRecensMaillage ==
  /\ variant = "appli"
  /\ preprocess_safe_run("adapt_recens_maillage", "create_grid", "Starting",
                         adapt_recens_to_maillage)

(* safe_run("compute_surface_batie", compute_surface_batie) *)
RunComputeSurfaceBatie ==
  /\ variant = "appli"
  /\ preprocess_safe_run("compute_surface_batie", "adapt_recens_maillage", "Starting",
                         compute_surface_batie)

(* safe_run("200m grid creation", create_grid) *)
RunGridCreationModele ==
  /\ variant = "modele"
  /\ preprocess_safe_run("200m grid creation", "preprocess_start", "Starting:",
                         create_grid_secteurs_main)

PreStates == {"ok", "missing"}

InitPreprocess ==
  /\ pc = "preprocess_start" /\ pool = NoPool
  /\ bounds = NoBounds
  /\ grid = <<>>
  /\ intersected = <<>>
  /\ surf = <<>>
  /\ sirene = <<>> /\ merged = <<>> /\ voirie = <<>> /\ log = <<>> /\ poi = <<>>
  /\ \/ /\ variant = "appli"
        /\ cell_size \in (-1)..MaxPreCell
        /\ secteurs \in {<<>>} \cup {<<d>> : d \in PreDeps}
        /\ recens = PreRecens
        /\ bati = PreBati
        /\ env \in [boundary : PreStates, maillage : {"int", "text"},
                    recens : PreStates, bati : PreStates, stale : BOOLEAN]
     \/ /\ variant = "modele"
        /\ cell_size = CELL_SIZE
        /\ secteurs \in {<<>>} \cup PreSecteurs
        /\ recens = <<>>
        /\ bati = <<>>
        /\ env \in [boundary : PreStates, maillage : {"int"},
                    recens : {"ok"}, bati : {"ok"}, stale : BOOLEAN]
  /\ features = IF env.stale THEN ("grid" :> StaleGrid) ELSE <<>>

NextPreprocess ==
  \/ RunCreateGrid
  \/ RunAdaptRecensMaillage
  \/ RunComputeSurfaceBatie
  \/ RunGridCreationModele

SpecPreprocess == InitPreprocess /\ [][NextPreprocess]_vars

(***************************************************************************)
(* Properties of the preprocessing pipeline.                               *)
(***************************************************************************)
(* The tessellation cannot succeed: no boundary, or a cell size <= 0.      *)
EmptyBoundary == secteurs = <<>> \/ env.boundary # "ok"
InvalidCellSize == cell_size <= 0
TessellationFails == EmptyBoundary \/ InvalidCellSize

GridStage == IF variant = "appli" THEN "create_grid" ELSE "200m grid creation"

StartedStage(name) ==
  \E n \in 1..Len(log) : log[n] = print_status(<<"Starting", name>>, "info")

(* The caller of the stage, safe_run, received an exception from it.       *)
FailedStage(name) ==
  \E n \in 1..Len(log) : log[n] = print_status(<<name, "failed">>, "err")

(* The files the run found on disk when it started.                        *)
InitialFiles == IF env.stale THEN ("grid" :> StaleGrid) ELSE <<>>

(* C19: when tessellation fails (boundary not found or empty, or cell size *)
(* <= 0) the preprocessing run stops there: neither the census adaptation  *)
(* nor the built-surface computation is started, and no file is derived    *)
(* from a grid that an earlier run left on disk.                           *)
C19_AbortsAfterFailedTessellation ==
  (variant = "appli" /\ pc # "preprocess_start" /\ TessellationFails) =>
    /\ ~StartedStage("adapt_recens_maillage")
    /\ ~StartedStage("compute_surface_batie")
    /\ ~("recens_agrege" \in DOMAIN features)
    /\ ~("surf_batie" \in DOMAIN features)

(* C20: tessellating with an empty boundary or with a cell size <= 0 ends  *)
(* with an error that reaches the tessellator's caller, and no grid file,  *)
(* empty or not, is written by that run.                                   *)
C20_TessellationErrorReachesCaller ==
  (pc = GridStage /\ (secteurs = <<>> \/ InvalidCellSize)) =>
    /\ FailedStage(GridStage)
    /\ features = InitialFiles

(* C30: when every input layer and the grid are present and well formed,   *)
(* every feature scheduled by the pipeline's main is invoked with the       *)
(* arguments its function accepts, returns a table, and ends with its       *)
(* column written and the step reported as completed.                       *)
C30_EveryScheduledFeatureCompletes ==
  (PipelineDone /\ env = AllPresent) =>
    \A i \in 1..Len(Scheduled) :
      /\ (IF Scheduled[i].grid THEN 1 ELSE 0) = Scheduled[i].params
      /\ ~Invoke(i).raised
      /\ ReportedCompleted(Scheduled[i].name)
      /\ ~ReportedFailure(Scheduled[i].name)
      /\ Scheduled[i].name \in DOMAIN features

(* The count column the density reducers merge on the grid.                *)
NumeratorOf(pts, nb, id) ==
  Matching(DensityFrame(grid, CountBySize(grid, pts, nb), ReadIdAsStr(surf), nb), id)[1][nb]

(* C22: in the density reducers the count used as numerator for a cell is  *)
(* the number of layer records contained in the cell; a cell that contains *)
(* no establishment (resp. no shop) has count 0 and, when its basis passes *)
(* the threshold, density 0.                                               *)
C22_CountIsRecordsInCell ==
  "densite_commerces" \in DOMAIN features =>
    \A k \in 1..Len(grid) :
      LET id == grid[k].idINSPIRE
          n_eta == RecordCount(grid[k].geom, sirene)
          n_com == RecordCount(grid[k].geom, Commerces(sirene))
      IN  /\ NumeratorOf(sirene, "nb_etabs_sirene", id) = n_eta
          /\ NumeratorOf(Commerces(sirene), "nb_commerces", id) = n_com
          /\ (n_eta = 0 /\ Basis(id) > SURF_MIN) =>
               HasValue(features["densite_etablissements"], "densite_etablissements",
                        id, Zero)
          /\ (n_com = 0 /\ Basis(id) > SURF_MIN) =>
               HasValue(features["densite_commerces"], "densite_commerces", id, Zero)

(***************************************************************************)
(* The job-estimate reducer run as a script: feature_emp_est (appli) and   *)
(* emp_est (modele).                                                       *)
(***************************************************************************)
MaxJobs == 2

(* shapely polygon.intersects(point): the point lies in the closed cell.   *)
IntersectsPoint(cell, pt) ==
  /\ cell.x0 <= pt.x /\ pt.x <= cell.x1
  /\ cell.y0 <= pt.y /\ pt.y <= cell.y1

(* modele: gdf = gpd.sjoin(gdf, grid[["geometry"]], how="inner",           *)
(* predicate="intersects"): one row per (establishment, grid row) pair     *)
(* that intersects.                                                        *)
spatial_filter(sir, g) ==
  LET m == Len(g)
      pairs == [n \in 1..(Len(sir) * m) |->
                  [e |-> ((n - 1) \div m) + 1, row |-> ((n - 1) % m) + 1]]
      hits == SelectSeq(pairs, LAMBDA p : IntersectsPoint(g[p.row].geom, sir[p.e].geom))
  IN  [n \in 1..Len(hits) |-> sir[hits[n].e]]

(* The rows of the filtered layer a grid row intersects (left join on      *)
(* "intersects"), for all the grid rows of one identifier.                 *)
RECURSIVE IntersectedBy(_, _, _)
IntersectedBy(rows, pts, k) ==
  IF k > Len(rows) THEN <<>>
  ELSE SelectSeq(pts, LAMBDA e : IntersectsPoint(rows[k].geom, e.geom))
         \o IntersectedBy(rows, pts, k + 1)

(* modele compute_emplois_estimes_pondere(grid): the class values and the  *)
(* fallback means are taken on the filtered layer, and the estimates of    *)
(* its rows are summed per identifier.                                     *)
emplois_estimes_pondere_modele(g, sir) ==
  LET gdf == spatial_filter(sir, g)
      keys == SortedIds(g)
  IN  [n \in 1..Len(keys) |->
         LET in == IntersectedBy(Matching(g, keys[n]), gdf, 1)
         IN  [idINSPIRE |-> keys[n],
              emplois_estimes_pondere |->
                SumRatios([i \in 1..Len(in) |-> emplois_estimes(gdf, in[i])], 1)]]

(* Input families: establishments inside a cell, on the edge it shares     *)
(* with the next cell and inside that one, with two known headcount        *)
(* classes and one absent from the lookup, and two NAF prefixes.           *)
JobPoints(v) ==
  IF v = "appli" THEN {[x |-> 1, y |-> 1], [x |-> 5, y |-> 1], [x |-> 6, y |-> 1]}
  ELSE {[x |-> 40, y |-> 40], [x |-> 0, y |-> 40], [x |-> 0 - 40, y |-> 40]}

JobRecords(v) ==
  {[geom |-> p, naf |-> c, trancheEffectifsEtablissement |-> t] :
     p \in JobPoints(v), c \in NafCodes, t \in {"01", "02", "NN"}}

InitJobs ==
  /\ pc = "jobs_ready"
  /\ bounds = NoBounds
  /\ bati = <<>> /\ intersected = <<>> /\ surf = <<>>
  /\ recens = <<>> /\ features = <<>> /\ merged = <<>> /\ voirie = <<>> /\ log = <<>>
  /\ poi = <<>> /\ env = AllPresent /\ pool = NoPool
  /\ \/ /\ variant = "appli"
        /\ cell_size = 5
        /\ secteurs = <<FeatDep>>
     \/ /\ variant = "modele"
        /\ cell_size = CELL_SIZE
        /\ secteurs \in MixSecteurs
  /\ grid = Tessellate(variant, cell_size, secteurs)
  /\ sirene \in SeqsUpTo(JobRecords(variant), MaxJobs)

(* appli feature_emp_est run as a script                                   *)
ComputeEmploisEstimesAppli ==
  /\ pc = "jobs_ready" /\ variant = "appli"
  /\ features' = ("emplois_estimes_pondere" :> emplois_estimes_pondere(grid, sirene))
                   @@ features
  /\ pc' = "jobs_done"
  /\ UNCHANGED frame

(* modele emp_est run as a script                                          *)
ComputeEmploisEstimesModele ==
  /\ pc = "jobs_ready" /\ variant = "modele"
  /\ features' = ("emplois_estimes_pondere" :>
                    emplois_estimes_pondere_modele(grid, sirene)) @@ features
  /\ pc' = "jobs_done"
  /\ UNCHANGED frame

NextJobs == ComputeEmploisEstimesAppli \/ ComputeEmploisEstimesModele

SpecJobs == InitJobs /\ [][NextJobs]_vars

(***************************************************************************)
(* Properties of the job-estimate reducer.                                 *)
(***************************************************************************)
(* The establishments with a known headcount class and the NAF prefix of   *)
(* establishment j.                                                        *)
KnownPeers(j) ==
  {i \in 1..Len(sirene) :
     HasTranche(sirene[i]) /\ Prefix2(AsStr(sirene[i])) = Prefix2(AsStr(sirene[j]))}

RECURSIVE SumLookup(_)
SumLookup(S) ==
  IF S = {} THEN Zero
  ELSE LET i == CHOOSE e \in S : TRUE
       IN  AddRatio(TRANCHE_TO_EFFECTIF[sirene[i].trancheEffectifsEtablissement],
                    SumLookup(S \ {i}))

(* The ordered fallback: class value, else mean over the peers, else 0.    *)
Estimate(j) ==
  IF HasTranche(sirene[j])
    THEN TRANCHE_TO_EFFECTIF[sirene[j].trancheEffectifsEtablissement]
  ELSE IF KnownPeers(j) # {}
    THEN LET s == SumLookup(KnownPeers(j))
         IN  Ratio(s.num, s.den * Cardinality(KnownPeers(j)))
  ELSE Zero

RECURSIVE SumEstimates(_)
SumEstimates(S) ==
  IF S = {} THEN Zero
  ELSE LET j == CHOOSE e \in S : TRUE
       IN  AddRatio(Estimate(j), SumEstimates(S \ {j}))

(* An assignment of the establishments to a cell: those inside it, and any *)
(* of those on its boundary.                                               *)
Assignments(cell) ==
  {A \in SUBSET {j \in 1..Len(sirene) : IntersectsPoint(cell, sirene[j].geom)} :
     \A j \in 1..Len(sirene) : Contains(cell, sirene[j].geom) => j \in A}

(* C24: each establishment's estimate is the lookup value of its headcount *)
(* class when the class is in the lookup, otherwise the mean lookup value  *)
(* over the establishments with a known class and the same 2-character NAF *)
(* prefix, otherwise 0; the value of a cell is the sum of these estimates  *)
(* over the establishments assigned to the cell.                           *)
C24_OrderedFallbackSum ==
  pc = "jobs_done" =>
    \A k \in 1..Len(grid) :
      \E A \in Assignments(grid[k].geom) :
        HasValue(features["emplois_estimes_pondere"], "emplois_estimes_pondere",
                 grid[k].idINSPIRE, SumEstimates(A))

(***************************************************************************)
(* Contribution of a record to the value of a cell.                        *)
(***************************************************************************)
(* The layer without its j-th record.                                      *)
Without(t, j) == [i \in 1..(Len(t) - 1) |-> IF i < j THEN t[i] ELSE t[i + 1]]

(* The defined values a column holds for a cell (none when undefined).     *)
ValuesOf(col, f, id) ==
  {col[k][f] : k \in {n \in 1..Len(col) : col[n].idINSPIRE = id /\ f \in DOMAIN col[n]}}

(* The cells whose standard deviations change when building j is taken     *)
(* out of the layer: the building contributes to each of them.             *)
StdCellsOf(j) ==
  {grid[k].idINSPIRE : k \in
     {n \in 1..Len(grid) :
        \/ ValuesOf(features["ecart_type_hauteur"], "ecart_type_hauteur",
                    grid[n].idINSPIRE)
             # ValuesOf(ecart_type_hauteur(grid, Without(bati, j)),
                        "ecart_type_hauteur", grid[n].idINSPIRE)
        \/ ValuesOf(features["ecart_type_surface_batiment"],
                    "ecart_type_surface_batiment", grid[n].idINSPIRE)
             # ValuesOf(ecart_type_surface_batiment(grid, Without(bati, j)),
                        "ecart_type_surface_batiment", grid[n].idINSPIRE)}}

(* C23: in the reducers specified to use the membership join, each input   *)
(* record contributes to the value of at most one cell, including          *)
(* buildings that straddle two cells or lie on their shared boundary;      *)
(* stated on the standard deviations of building height and area.          *)
C23_RecordInAtMostOneCell ==
  "ecart_type_surface_batiment" \in DOMAIN features =>
    \A j \in 1..Len(bati) : Cardinality(StdCellsOf(j)) <= 1

(* Every feature file holds each identifier on one row at most.            *)
AllCellUnique == \A f \in DOMAIN features : ~NotCellUnique(features[f])

(* C28: the Feature Table produced by fusion_features does not depend on   *)
(* the order in which the feature files are merged: for every order of the *)
(* same cell-unique feature columns the merged table has the same cell     *)
(* identifiers, one row each, and in every (cell, feature) position the    *)
(* value the feature's file holds for the cell, or no value (NaN) when the *)
(* file holds none.                                                        *)
C28_FusionOrderIndependent ==
  (pc = "fused" /\ AllCellUnique /\ DOMAIN features # {}) =>
    /\ \A o \in Listings(DOMAIN features) :
         LET t == MergeFiles(features, o, Len(o))
         IN  /\ Ids(t) = Ids(merged)
             /\ \A id \in Ids(merged), f \in DOMAIN features :
                  ValuesOf(t, f, id) = ValuesOf(merged, f, id)
    /\ Ids(merged) = UNION {Ids(read_csv(features[f])) : f \in DOMAIN features}
    /\ ~NotCellUnique(merged)
    /\ \A id \in Ids(merged), f \in DOMAIN features :
         ValuesOf(merged, f, id) = ValuesOf(read_csv(features[f]), f, id)

(* Three files were merged; an identifier is in one of them only, another  *)
(* in all three, and one position of the table is NaN.                     *)
C28_Witness ==
  /\ pc = "fused" /\ AllCellUnique
  /\ Cardinality(DOMAIN features) = 3
  /\ Len(merged) = 2
  /\ \E id \in Ids(merged) :
       Cardinality({f \in DOMAIN features : id \in Ids(read_csv(features[f]))}) = 1
  /\ \E id \in Ids(merged) :
       \A f \in DOMAIN features : ValuesOf(merged, f, id) # {}
  /\ \E id \in Ids(merged), f \in DOMAIN features : ValuesOf(merged, f, id) = {}

(***************************************************************************)
(* The reducers of modele called on one grid object and one census layer   *)
(* object, in any order (features_pipeline passes the same grid to every   *)
(* call): score_poi, emp_est, in_mix_fonc and part_jeune.  A grid row      *)
(* written by create_grid_secteurs carries the index_right column of the   *)
(* sector join.                                                            *)
(***************************************************************************)
(* df.drop(columns=["index_right"], errors="ignore", inplace=True)         *)
drop_index_right(g) ==
  [k \in 1..Len(g) |-> [f \in (DOMAIN g[k]) \ {"index_right"} |-> g[k][f]]]

(* gpd.sjoin raises ValueError when a frame already has a column named     *)
(* index_right.                                                            *)
HasIndexRight(g) == \E k \in 1..Len(g) : "index_right" \in DOMAIN g[k]

(* What a call left behind: the grid and the census layer of the caller,   *)
(* the lines printed and the table returned.                               *)
Call(g, rec, diag, df) == [grid |-> g, recens |-> rec, diag |-> diag, df |-> df]

(* score_poi.compute_score_poi_pondere(grid): the grid is joined as it is. *)
score_poi(g, rec, pts) ==
  IF HasIndexRight(g)
    THEN Call(g, rec, <<print_status(<<"Error computing score_poi_pondere">>, "err")>>,
              EmptyFrame)
    ELSE Call(g, rec, <<print_status(<<"Spatial join POI -> grid">>, "info")>>,
              score_poi_pondere(g, pts))

(* emp_est.compute_emplois_estimes_pondere(grid): index_right is dropped   *)
(* from the caller's grid in place before the joins.                       *)
emp_est(g, rec, sir) ==
  Call(drop_index_right(g), rec, <<print_status(<<"SIRENE spatially filtered">>, "info")>>,
       emplois_estimes_pondere_modele(drop_index_right(g), sir))

(* in_mix_fonc.compute_indice_mixite_fonctionnelle(grid): the same drop.   *)
in_mix_fonc(g, rec, sir) ==
  Call(drop_index_right(g), rec,
       <<print_status(<<"Spatial join SIRENE -> grid">>, "info")>>,
       indice_mixite_fonctionnelle("modele", drop_index_right(g), sir))

(* recens["sum_jeunes"] = ...; recens["part_jeunes_200m"] = sum / ind,     *)
(* assigned on the caller's table (0 / 0 is NaN).                          *)
with_part_jeunes_200m(rec) ==
  [k \in 1..Len(rec) |->
     LET s == SumField([i \in 1..Len(JeunesAges) |-> [v |-> rec[k][JeunesAges[i]]]], "v", 1)
     IN  (IF rec[k].ind > 0 THEN [part_jeunes_200m |-> Ratio(s, rec[k].ind)] ELSE <<>>)
           @@ [sum_jeunes |-> s] @@ rec[k]]

(* part_jeune.compute_part_jeunes(grid, recens): the census cells with     *)
(* ind > 0 joined to the grid rows they intersect, and per identifier      *)
(* sum(part * ind) / sum(ind).                                             *)
part_jeune(g, rec) ==
  LET marked == with_part_jeunes_200m(rec)
      joined == sjoin_inner_intersects(SelectSeq(marked, LAMBDA r : r.ind > 0), g)
      keys == SortKeys({joined[k].idINSPIRE : k \in 1..Len(joined)})
  IN  Call(g, marked,
           <<print_status(<<"Proportion of young people computed">>, "ok")>>,
           [n \in 1..Len(keys) |->
              LET grp == Matching(joined, keys[n])
              IN  [idINSPIRE |-> keys[n],
                   part_jeunes |->
                     Ratio(SumField(grp, "sum_jeunes", 1), SumField(grp, "ind", 1))]])

(* Input families: none or one establishment, none or one point of         *)
(* interest, and a census layer of two 200 m cells, one of them empty.     *)
CensusCell(r, n, a) ==
  [c \in {"ind"} \cup Range(JeunesAges) |->
     CASE c = "ind" -> n [] c = "ind_0_3" -> a [] OTHER -> 0] @@ [geom |-> r]

SharedRecens ==
  <<CensusCell(box(0, 0, 200, 200), 2, 1), CensusCell(box(0 - 200, 0, 0, 200), 0, 0)>>

SharedPoi == {<<>>, <<[geom |-> [x |-> 40, y |-> 40], type_poi |-> "cafe"]>>}

InitShared ==
  /\ pc = "shared"
  /\ variant = "modele"
  /\ cell_size = CELL_SIZE
  /\ secteurs \in MixSecteurs
  /\ bounds = NoBounds
  /\ grid = Tessellate(variant, cell_size, secteurs)
  /\ bati = <<>> /\ intersected = <<>> /\ surf = <<>>
  /\ features = <<>> /\ merged = <<>> /\ voirie = <<>> /\ log = <<>>
  /\ env = AllPresent /\ pool = NoPool
  /\ sirene \in SeqsUpTo(JobRecords(variant), 1)
  /\ poi \in SharedPoi
  /\ recens = SharedRecens

(* One call on the shared objects and the to_csv of its result.            *)
CallOnShared(name, r) ==
  /\ pc = "shared"
  /\ name \notin DOMAIN features
  /\ grid' = r.grid
  /\ recens' = r.recens
  /\ features' = (name :> r.df) @@ features
  /\ log' = log \o r.diag
  /\ UNCHANGED <<pc, variant, cell_size, secteurs, bounds, bati, intersected, surf,
                 sirene, merged, voirie, poi, env, pool>>

CallScorePoi == CallOnShared("score_poi_pondere", score_poi(grid, recens, poi))
CallEmpEst == CallOnShared("emplois_estimes_pondere", emp_est(grid, recens, sirene))
CallInMixFonc ==
  CallOnShared("indice_mixite_fonctionnelle", in_mix_fonc(grid, recens, sirene))
CallPartJeune == CallOnShared("part_jeunes", part_jeune(grid, recens))

NextShared == CallScorePoi \/ CallEmpEst \/ CallInMixFonc \/ CallPartJeune

SpecShared == InitShared /\ [][NextShared]_vars

(***************************************************************************)
(* Properties of the calls on shared objects.                              *)
(***************************************************************************)
(* The grid the tessellator created.                                       *)
CreatedGrid == Tessellate(variant, cell_size, secteurs)

(* The table a feature returns when it is the first one to run.            *)
RunFirst(name) ==
  CASE name = "score_poi_pondere" -> score_poi(CreatedGrid, SharedRecens, poi).df
    [] name = "emplois_estimes_pondere" -> emp_est(CreatedGrid, SharedRecens, sirene).df
    [] name = "indice_mixite_fonctionnelle" ->
         in_mix_fonc(CreatedGrid, SharedRecens, sirene).df
    [] name = "part_jeunes" -> part_jeune(CreatedGrid, SharedRecens).df

(* C27: no reducer modifies the grid or the layer it receives: after any   *)
(* sequence of feature computations on the same grid object the grid's     *)
(* cells, identifiers and columns and the caller's layer table are         *)
(* unchanged, and the result of a feature does not depend on which         *)
(* features ran before it.                                                 *)
C27_ReducersLeaveInputsUnchanged ==
  pc = "shared" =>
    /\ grid = CreatedGrid
    /\ recens = SharedRecens
    /\ \A name \in DOMAIN features : features[name] = RunFirst(name)

(***************************************************************************)
(* The parallel mean pairwise distance of modele (dis_moy_bati.py):        *)
(* process_map(compute_mean_distance, grouped, max_workers=cpu_count(),    *)
(* chunksize=1) submits one future per group to a process pool; the        *)
(* workers take the pending futures in order, at most max_workers at a     *)
(* time, and finish in any order; the results are read in the order of     *)
(* submission.  A future that raised re-raises when its turn comes, the    *)
(* futures still pending are cancelled, the pool is shut down, and the     *)
(* except clause of the reducer returns the empty frame.                   *)
(***************************************************************************)
MaxPoolBati == 3
MaxWorkers == 2

(* Buildings with centroids in three cells of the grid of modele, two of   *)
(* them in the same cell at distance 100.                                  *)
PoolBati ==
  {SquareAt(40, 40, 20), SquareAt(100, 120, 20), SquareAt(0 - 40, 40, 20),
   SquareAt(40, 0 - 40, 20)}

(* Variant: every pair carries the coordinates of the whole joined table.  *)
grouped_whole(joined) ==
  LET keys == SortKeys({joined[k].idINSPIRE : k \in 1..Len(joined)})
  IN  [n \in 1..Len(keys) |->
         [id |-> keys[n], coords |-> [i \in 1..Len(joined) |-> joined[i].centroid]]]

(* grouped = list(joined.groupby("idINSPIRE")): the (id_, df) pairs in the *)
(* order of the keys, each with the coordinates of its own rows.           *)
grouped(joined) ==
  LET keys == SortKeys({joined[k].idINSPIRE : k \in 1..Len(joined)})
  IN  [n \in 1..Len(keys) |->
         LET grp == Matching(joined, keys[n])
         IN  [id |-> keys[n], coords |-> [i \in 1..Len(grp) |-> grp[i].centroid]]]

(* Variant: the values in the order in which the workers finished.         *)
results_as_completed(p) == [g \in 1..Len(p.tasks) |-> p.done[p.order[g]]]

(* results: the values of the futures in the order of submission.          *)
results(p) == [g \in 1..Len(p.tasks) |-> p.done[g]]

InitPool ==
  /\ pc = "pool_ready"
  /\ variant = "modele"
  /\ cell_size = CELL_SIZE
  /\ secteurs \in MixSecteurs
  /\ bounds = NoBounds
  /\ grid = Tessellate(variant, cell_size, secteurs)
  /\ intersected = <<>> /\ surf = <<>>
  /\ sirene = <<>> /\ recens = <<>> /\ features = <<>> /\ merged = <<>>
  /\ voirie = <<>> /\ log = <<>> /\ poi = <<>> /\ env = AllPresent
  /\ bati \in SeqsUpTo(PoolBati, MaxPoolBati)
  /\ pool = NoPool

(* Lines 33-58 up to the submission: the filter, the centroids, the join,  *)
(* the groups, and a pool of cpu_count() workers with one pending future   *)
(* per group.                                                              *)
SubmitGroups ==
  /\ pc = "pool_ready"
  /\ \E n \in 1..MaxWorkers :
       LET tasks == grouped(sjoin_within(NearGrid(bati, grid), grid))
       IN  pool' = [max_workers |-> n, tasks |-> tasks,
                    queue |-> [g \in 1..Len(tasks) |-> g], running |-> {},
                    dispatched |-> [g \in 1..Len(tasks) |-> 0],
                    done |-> <<>>, order |-> <<>>, failed |-> {}]
  /\ log' = log \o <<print_status(<<"Computing average distances">>, "info")>>
  /\ pc' = "pool_running"
  /\ UNCHANGED <<variant, cell_size, secteurs, bounds, grid, bati, intersected, surf,
                 sirene, recens, features, merged, voirie, poi, env>>

PoolUnchanged ==
  UNCHANGED <<pc, variant, cell_size, secteurs, bounds, grid, bati, intersected, surf,
              sirene, recens, features, merged, voirie, log, poi, env>>

(* An idle worker process takes the first pending future.                  *)
WorkerTakes ==
  /\ pc \in {"pool_running", "pool_cancelled"}
  /\ pool.queue # <<>>
  /\ Cardinality(pool.running) < pool.max_workers
  /\ LET g == Head(pool.queue)
     IN  pool' = [pool EXCEPT !.queue = Tail(@), !.running = @ \cup {g},
                              !.dispatched[g] = @ + 1]
  /\ PoolUnchanged

(* A worker returns compute_mean_distance(group) for the group it holds.   *)
WorkerReturns ==
  /\ pc \in {"pool_running", "pool_cancelled"}
  /\ \E g \in pool.running :
       pool' = [pool EXCEPT
                  !.running = @ \ {g},
                  !.done = (g :> compute_mean_distance(pool.tasks[g].id,
                                                       pool.tasks[g].coords)) @@ @,
                  !.order = Append(@, g)]
  /\ PoolUnchanged

(* The call of a worker raises, or its process dies: the future of the     *)
(* group holds an exception.                                               *)
WorkerFails ==
  /\ pc \in {"pool_running", "pool_cancelled"}
  /\ \E g \in pool.running :
       pool' = [pool EXCEPT !.running = @ \ {g}, !.failed = @ \cup {g}]
  /\ PoolUnchanged

(* The results are read in order; reaching a future that raised, the       *)
(* iterator cancels the futures that are still pending (those already      *)
(* handed to the workers' call queue still run) and re-raises.             *)
CancelPending ==
  /\ pc = "pool_running"
  /\ \E g \in pool.failed : \A h \in 1..(g - 1) : h \in DOMAIN pool.done
  /\ \E m \in 0..Len(pool.queue) :
       pool' = [pool EXCEPT !.queue = SubSeq(@, 1, m)]
  /\ pc' = "pool_cancelled"
  /\ UNCHANGED <<variant, cell_size, secteurs, bounds, grid, bati, intersected, surf,
                 sirene, recens, features, merged, voirie, log, poi, env>>

(* Line 60 and the to_csv of the caller: every future returned, the frame  *)
(* of the results is the column.                                           *)
ReturnResults ==
  /\ pc = "pool_running"
  /\ pool.queue = <<>> /\ pool.running = {} /\ pool.failed = {}
  /\ features' = ("distance_moyenne_batiments" :> results(pool)) @@ features
  /\ pc' = "pool_done"
  /\ UNCHANGED <<frame>>

(* Lines 62-64 and the to_csv of the caller: the pool is shut down once    *)
(* its running calls ended, the exception is reported and the empty frame  *)
(* is the column.                                                          *)
ReturnEmptyFrame ==
  /\ pc = "pool_cancelled"
  /\ pool.queue = <<>> /\ pool.running = {}
  /\ features' = ("distance_moyenne_batiments" :> EmptyFrame) @@ features
  /\ log' = log \o <<print_status(<<"Error computing distance_moyenne_batiments">>, "err")>>
  /\ pc' = "pool_done"
  /\ UNCHANGED <<variant, cell_size, secteurs, bounds, grid, bati, intersected, surf,
                 sirene, recens, merged, voirie, poi, env, pool>>

NextPool ==
  \/ SubmitGroups
  \/ WorkerTakes
  \/ WorkerReturns
  \/ WorkerFails
  \/ CancelPending
  \/ ReturnResults
  \/ ReturnEmptyFrame

SpecPool == InitPool /\ [][NextPool]_vars

(***************************************************************************)
(* Properties of the parallel reducer.                                     *)
(***************************************************************************)
PoolStarted == pc \in {"pool_running", "pool_cancelled", "pool_done"}

(* The column of the sequential loop (feature_d_moy_bati.py lines 33-47)   *)
(* over the same joined table.                                             *)
SequentialColumn == distance_by_group(sjoin_within(NearGrid(bati, grid), grid))

(* The centroids of the buildings joined to the rows of one identifier.    *)
OwnCoords(id) ==
  LET joined == sjoin_within(NearGrid(bati, grid), grid)
      own == SelectSeq(joined, LAMBDA r : r.idINSPIRE = id)
  IN  [i \in 1..Len(own) |-> own[i].centroid]

GroupIds ==
  LET joined == sjoin_within(NearGrid(bati, grid), grid)
  IN  {joined[k].idINSPIRE : k \in 1..Len(joined)}

(* C25: whatever the assignment of the groups to the workers and the       *)
(* order in which the workers complete, the returned column holds exactly  *)
(* one entry per cell group, each computed from the coordinates of that    *)
(* group only, it is returned only after every group has been processed,   *)
(* and it is the column of the sequential reducer.                         *)
C25_ParallelColumnIsSequential ==
  (PoolStarted /\ pool.failed = {}) =>
    /\ "distance_moyenne_batiments" \in DOMAIN features =>
         /\ pool.queue = <<>> /\ pool.running = {}
         /\ DOMAIN pool.done = 1..Len(pool.tasks)
    /\ pc = "pool_done" =>
         LET col == features["distance_moyenne_batiments"]
         IN  /\ col = SequentialColumn
             /\ \A id \in GroupIds :
                  /\ Cardinality({k \in 1..Len(col) : col[k].idINSPIRE = id}) = 1
                  /\ compute_mean_distance(id, OwnCoords(id)) \in Range(col)
             /\ \A k \in 1..Len(col) : col[k].idINSPIRE \in GroupIds

(* Two workers, at least two groups, and the second group finished first.  *)
C25_Witness ==
  /\ pc = "pool_done" /\ pool.failed = {}
  /\ pool.max_workers = 2
  /\ Len(pool.order) >= 2 /\ pool.order[1] > pool.order[2]
  /\ \E k \in 1..Len(features["distance_moyenne_batiments"]) :
       "distance_moyenne_batiments" \in DOMAIN features["distance_moyenne_batiments"][k]

(* C26: with a pool of N workers at most N groups are being computed at    *)
(* any time, every group is dispatched to a worker exactly once, and when  *)
(* the worker of one group fails the results of the other groups are not   *)
(* lost.                                                                   *)
C26_BoundedPoolKeepsSiblingResults ==
  PoolStarted =>
    /\ Cardinality(pool.running) <= pool.max_workers
    /\ \A g \in 1..Len(pool.tasks) : pool.dispatched[g] <= 1
    /\ pc = "pool_done" =>
         \A g \in 1..Len(pool.tasks) :
           /\ pool.dispatched[g] = 1
           /\ g \notin pool.failed =>
                compute_mean_distance(pool.tasks[g].id, pool.tasks[g].coords)
                  \in Range(features["distance_moyenne_batiments"])

(* Termination: the number of steps left before the reducer returns is    *)
(* bounded by a measure that every step decreases, and until it returns    *)
(* some step is possible, so under fair scheduling it eventually returns.  *)
PoolMeasure ==
  CASE pc = "pool_ready" -> 3 * MaxPoolBati + 4
    [] pc = "pool_running" -> 2 * Len(pool.queue) + Cardinality(pool.running) + 2
    [] pc = "pool_cancelled" -> 2 * Len(pool.queue) + Cardinality(pool.running) + 1
    [] OTHER -> 0

PoolStepsDecrease == [][PoolMeasure' < PoolMeasure]_vars

PoolCanStep ==
  CASE pc = "pool_running" ->
         \/ pool.queue # <<>> /\ Cardinality(pool.running) < pool.max_workers
         \/ pool.running # {}
         \/ pool.queue = <<>> /\ pool.failed = {}
         \/ \E g \in pool.failed : \A h \in 1..(g - 1) : h \in DOMAIN pool.done
    [] pc = "pool_cancelled" -> TRUE
    [] OTHER -> pc \in {"pool_ready", "pool_done"}

(***************************************************************************)
(* The built-surface overlays on layers that hold invalid polygons.  An    *)
(* invalid record carries its ring as GEOS reads it unrepaired (geom), the *)
(* result of buffer(0) (buffer0, a null geometry when the repair leaves    *)
(* nothing) and the result of make_valid() (made_valid).                   *)
(*   appli: gpd.overlay is called with its default make_valid=True, which  *)
(* replaces every invalid polygon by buffer(0) (geopandas before 1.0) or   *)
(* by make_valid() (from 1.0 on); the area filter of line 30 comes first.  *)
(*   modele: no repair; intersection on an invalid ring either raises a    *)
(* GEOS topology exception, which leaves the function, or computes on the  *)
(* ring as it is.                                                          *)
(***************************************************************************)
MaxRepairBati == 2

is_valid(rec) == "buffer0" \notin DOMAIN rec

(* The layer as the overlay sees it after its make_valid step.             *)
overlay_make_valid(lib, b) ==
  [j \in 1..Len(b) |->
     IF is_valid(b[j]) \/ IsNull(b[j].geom) THEN b[j]
     ELSE [geom |-> IF lib = "buffer" THEN b[j].buffer0 ELSE b[j].made_valid]]

(* Input families: two valid footprints, an invalid one that buffer(0)     *)
(* trims, and an invalid one that buffer(0) empties.                       *)
RepairBati(k) ==
  {[geom |-> box(14 * k, 0, 29 * k, 20 * k)],
   [geom |-> box(0, 0, 10 * k, 20 * k)],
   [geom |-> box(14 * k, 0, 29 * k, 20 * k), buffer0 |-> box(14 * k, 0, 24 * k, 20 * k),
    made_valid |-> box(14 * k, 0, 29 * k, 20 * k)],
   [geom |-> box(0, 0, 10 * k, 20 * k), buffer0 |-> NullGeom, made_valid |-> NullGeom]}

InitRepair ==
  /\ pc = "repair_ready"
  /\ NoLayers
  /\ bounds = NoBounds
  /\ intersected = <<>>
  /\ surf = <<>>
  /\ \/ /\ variant = "appli"
        /\ cell_size = 20
        /\ secteurs = <<{box(0, 0, 40, 20)}>>
        /\ grid = Tessellate(variant, cell_size, secteurs)
        /\ bati \in SeqsUpTo(RepairBati(1), MaxRepairBati)
     \/ /\ variant = "modele"
        /\ cell_size = CELL_SIZE
        /\ secteurs \in OverlaySecteurs
        /\ grid = Tessellate(variant, cell_size, secteurs)
        /\ bati \in SeqsUpTo(RepairBati(10), MaxRepairBati)

(* appli compute_surface_batie() with the status lines it prints.          *)
ComputeSurfaceBatieOverlay ==
  /\ pc = "repair_ready" /\ variant = "appli"
  /\ \E lib \in {"buffer", "make_valid"} :
       /\ intersected' =
            overlay_intersection(grid, overlay_make_valid(lib, KeepLargeBati(bati)))
       /\ surf' = GroupBySum(intersected', "surf_partielle", "surf_batie")
  /\ log' = log \o <<print_status(<<"Loading data">>, "info"),
                     print_status(<<"Calculating individual building surfaces">>, "info"),
                     print_status(<<"Spatial intersection buildings -> grid">>, "info"),
                     print_status(<<"Aggregating by grid cell">>, "info"),
                     print_status(<<"Built surface area export completed">>, "ok")>>
  /\ pc' = "repair_done"
  /\ UNCHANGED <<variant, cell_size, secteurs, bounds, grid, bati, sirene, recens,
                 features, merged, voirie, poi, env, pool>>

(* modele calculate_surface_batie_optimisee(): its progress lines go to    *)
(* print, not to print_status.                                             *)
CalculateSurfaceBatieUnrepaired ==
  /\ pc = "repair_ready" /\ variant = "modele"
  /\ \E geos \in {"computes", "raises"} :
       IF geos = "raises" /\ \E r \in Range(sjoin_bati_grid(bati, grid)) :
                               ~is_valid(bati[r.bat])
         THEN /\ pc' = "repair_raised"
              /\ UNCHANGED <<intersected, surf>>
         ELSE /\ intersected' = sjoin_bati_grid(bati, grid)
              /\ surf' = GroupBySum(intersected', "surf_inters", "surf_batie")
              /\ pc' = "repair_done"
  /\ UNCHANGED <<variant, cell_size, secteurs, bounds, grid, bati, layers>>

NextRepair == ComputeSurfaceBatieOverlay \/ CalculateSurfaceBatieUnrepaired

SpecRepair == InitRepair /\ [][NextRepair]_vars

(***************************************************************************)
(* Properties of the overlays on invalid polygons.                         *)
(***************************************************************************)
(* The layer with every invalid polygon repaired by buffer(0); a record    *)
(* whose repair leaves nothing is dropped.                                 *)
Repaired(b) ==
  [j \in 1..Len(b) |-> IF is_valid(b[j]) THEN b[j] ELSE [geom |-> b[j].buffer0]]

RepairFails(rec) == ~is_valid(rec) /\ IsNull(rec.buffer0)

(* The built surface per cell of the repaired layer.                       *)
SurfaceOfRepaired ==
  IF variant = "appli"
    THEN surf_batie_csv(grid, Repaired(bati))
    ELSE GroupBySum(sjoin_bati_grid(Repaired(bati), grid), "surf_inters", "surf_batie")

(* C29: in the built-surface overlay each polygon is repaired with a       *)
(* zero-distance buffer before its intersection is computed; a record      *)
(* whose repair fails is dropped from the computation and reported, and    *)
(* the remaining records are still aggregated.                             *)
C29_RepairedBeforeIntersection ==
  pc \in {"repair_done", "repair_raised"} =>
    /\ pc = "repair_done"
    /\ surf = SurfaceOfRepaired
    /\ (\E j \in 1..Len(bati) : RepairFails(bati[j])) =>
         \E k \in 1..Len(log) : log[k].status \in {"err", "warn"}

(***************************************************************************)
(* Two consecutive runs of the full pipeline of appli on unchanged inputs: *)
(* the tessellation, features_pipeline.main and fusion_features, then the  *)
(* same three steps again on the directories the first run left.  The      *)
(* exported table (merged) is rewritten only by fusion_features.           *)
(***************************************************************************)
Stage(k, s) ==
  CASE k = 1 /\ s = "start" -> "run1_start"
    [] k = 1 /\ s = "grid" -> "run1_grid"
    [] k = 1 /\ s = "features" -> "run1_features"
    [] k = 1 /\ s = "fused" -> "run1_fused"
    [] k = 2 /\ s = "grid" -> "run2_grid"
    [] k = 2 /\ s = "features" -> "run2_features"
    [] k = 2 /\ s = "fused" -> "run2_fused"

(* Variant of the write in which to_csv appends to the file it finds.      *)
to_csv_append(files, name, df) ==
  name :> ((IF name \in DOMAIN files THEN files[name] ELSE <<>>) \o df)

(* df.to_csv(path, index=False): the file is replaced.                     *)
to_csv(files, name, df) == name :> df

(* The directory after the calls i.. of main, and the lines they print.    *)
RECURSIVE main_files(_, _)
main_files(i, files) ==
  IF i > Len(Scheduled) THEN files
  ELSE main_files(i + 1,
                  IF ~Invoke(i).raised /\ env.out_dir
                    THEN to_csv(files, Scheduled[i].name, Invoke(i).df) @@ files
                    ELSE files)

RECURSIVE main_lines(_)
main_lines(i) ==
  IF i > Len(Scheduled) THEN <<>>
  ELSE <<print_status(<<"Starting", Scheduled[i].name>>, "info")>> \o Invoke(i).diag
         \o <<IF ~Invoke(i).raised /\ env.out_dir
                THEN print_status(<<Scheduled[i].name, "completed">>, "ok")
                ELSE print_status(<<Scheduled[i].name, "failed">>, "err")>>
         \o main_lines(i + 1)

(* Orders of os.listdir that are explored: the files in the order of main, *)
(* every rotation of it, and the reverse of each.                          *)
SampledListings(names) ==
  LET all == [i \in 1..Len(Scheduled) |-> Scheduled[i].name]
      base == SelectSeq(all, LAMBDA n : n \in names)
      n == Len(base)
      rot(r) == [i \in 1..n |-> base[((i - 1 + r) % n) + 1]]
      rev(o) == [i \in 1..n |-> o[n + 1 - i]]
  IN  {rot(r) : r \in 0..(n - 1)} \cup {rev(rot(r)) : r \in 0..(n - 1)}

InitRerun ==
  /\ pc = "run1_start" /\ pool = NoPool
  /\ variant = "appli"
  /\ cell_size = 10
  /\ secteurs = <<{box(0, 0, 20, 10)}>>
  /\ bounds = NoBounds
  /\ grid = <<>>
  /\ intersected = <<>> /\ surf = <<>> /\ merged = <<>> /\ voirie = <<>> /\ log = <<>>
  /\ env \in [sirene : States, bati : States, recens : States, poi : {"ok", "missing"},
              out_dir : BOOLEAN]
  /\ features \in (IF env.out_dir THEN {<<>>, StaleFiles} ELSE {<<>>})
  /\ sirene = (IF env.sirene = "missing" THEN NoFile ELSE PipeSirene)
  /\ bati = (CASE env.bati = "missing" -> NoFile
               [] env.bati = "bad" -> [j \in 1..Len(PipeBati) |-> [geom |-> PipeBati[j].geom]]
               [] OTHER -> PipeBati)
  /\ recens = (IF env.recens = "ok"
                 THEN PipeRecens(Tessellate(variant, cell_size, secteurs)) ELSE NoFile)
  /\ poi = (IF env.poi = "ok" THEN PipePoi ELSE NoFile)

(* preprocess_create_grid.main: the grid file is written anew.             *)
RerunTessellation ==
  /\ \E k \in 1..2 :
       /\ pc = (IF k = 1 THEN "run1_start" ELSE "run1_fused")
       /\ pc' = Stage(k, "grid")
  /\ grid' = Tessellate(variant, cell_size, secteurs)
  /\ UNCHANGED <<variant, cell_size, secteurs, bounds, bati, intersected, surf, layers>>

(* features_pipeline.main: the twelve safe_run calls.                      *)
RerunFeaturesPipeline ==
  /\ \E k \in 1..2 : pc = Stage(k, "grid") /\ pc' = Stage(k, "features")
  /\ features' = main_files(1, features)
  /\ log' = log \o main_lines(1)
  /\ UNCHANGED <<variant, cell_size, secteurs, bounds, grid, bati, intersected, surf,
                 sirene, recens, merged, voirie, poi, env, pool>>

(* fusion_features(): os.listdir raises when the directory is missing.     *)
RerunFusionFeatures ==
  /\ \E k \in 1..2 : pc = Stage(k, "features") /\ pc' = Stage(k, "fused")
  /\ IF ~env.out_dir
       THEN UNCHANGED <<merged, log>>
       ELSE IF DOMAIN features = {}
         THEN /\ merged' = merged
              /\ log' = Append(log, print_status(<<"No files to merge">>, "warning"))
         ELSE /\ \E all_files \in SampledListings(DOMAIN features) :
                   merged' = MergeFiles(features, all_files, Len(all_files))
              /\ log' = Append(log, print_status(<<"Merged file exported">>, "ok"))
  /\ UNCHANGED <<variant, cell_size, secteurs, bounds, grid, bati, intersected, surf,
                 sirene, recens, features, voirie, poi, env, pool>>

NextRerun == RerunTessellation \/ RerunFeaturesPipeline \/ RerunFusionFeatures

SpecRerun == InitRerun /\ [][NextRerun]_vars

(***************************************************************************)
(* Properties of the repeated run.                                         *)
(***************************************************************************)
(* Same rows with the same columns and values, whatever their order.       *)
SameTable(s, t) ==
  /\ Len(s) = Len(t)
  /\ \A row \in Range(s) \cup Range(t) :
       Cardinality({k \in 1..Len(s) : s[k] = row})
         = Cardinality({k \in 1..Len(t) : t[k] = row})

(* C21: running the full pipeline twice on unchanged inputs yields the     *)
(* same Feature Table both times: the table the second fusion exports has  *)
(* the rows, the columns and the values of the table the first fusion      *)
(* exported, whatever the listing orders and the files the first run left. *)
C21_SecondRunSameTable ==
  [][(pc = "run2_features" /\ pc' = "run2_fused") => SameTable(merged, merged')]_vars

(* A second run that exported a table of several columns over files the    *)
(* first run had left.                                                     *)
C21_Witness ==
  /\ pc = "run2_fused"
  /\ Cardinality(DOMAIN features) >= 2
  /\ \E k \in 1..Len(merged) : Cardinality(DOMAIN merged[k]) >= 3

====
